---- MODULE Spec2Model ----
(***************************************************************************)
(* MiniDB SQL front end: the schema catalog (catalog.py), the tokenizer    *)
(* (lexer.py) and the recursive-descent parser (parser.py).                *)
(*                                                                         *)
(* A Python str is a sequence of one-character strings; an Optional[T] is  *)
(* None (the empty sequence) or Some(v) (the one-element sequence).  A     *)
(* message built by an f-string is the concatenation of its pieces.        *)
(***************************************************************************)
EXTENDS Naturals, Sequences, FiniteSets, TLC

VARIABLES
    tables,         \* Catalog._tables: insertion-ordered (key, TableInfo) pairs
    call,           \* the catalog operation performed last, with its table name
    ret,            \* what that operation returned
    source,         \* SQLLexer.source
    position,       \* SQLLexer.position (0-based)
    line,           \* SQLLexer.line
    column,         \* SQLLexer.column
    tokens,         \* SQLLexer.tokens
    lstate,         \* tokenize: "idle", "scan", "returned" or "raised"
    lerr,           \* the LexerError tokenize raised, or None
    ptokens,        \* SQLParser.tokens
    ppos,           \* SQLParser.position
    current_token,  \* SQLParser.current_token
    statements,     \* the statements list of SQLParser.parse
    pstate,         \* parse: "idle", "loop", "returned" or "raised"
    perr,           \* the ParseError parse raised, or None
    plan            \* the statements the source text was written from

catVars == <<tables, call, ret>>
lexVars == <<source, position, line, column, tokens, lstate, lerr>>
parVars == <<ptokens, ppos, current_token, statements, pstate, perr>>
vars == <<tables, call, ret, source, position, line, column, tokens, lstate,
          lerr, ptokens, ppos, current_token, statements, pstate, perr, plan>>

\* body(v) with v evaluated once, however often body refers to it
With(v, body(_)) == CHOOSE y \in {body(x) : x \in {v}} : TRUE

None == <<>>

Some(v) == <<v>>

(***************************************************************************)
(* Strings                                                                 *)
(***************************************************************************)
LowerLetters ==
    <<"a", "b", "c", "d", "e", "f", "g", "h", "i", "j", "k", "l", "m",
      "n", "o", "p", "q", "r", "s", "t", "u", "v", "w", "x", "y", "z">>

UpperLetters ==
    <<"A", "B", "C", "D", "E", "F", "G", "H", "I", "J", "K", "L", "M",
      "N", "O", "P", "Q", "R", "S", "T", "U", "V", "W", "X", "Y", "Z">>

\* str.upper() on one character
UpperChar(c) ==
    CASE c = "a" -> "A" [] c = "b" -> "B" [] c = "c" -> "C" [] c = "d" -> "D"
      [] c = "e" -> "E" [] c = "f" -> "F" [] c = "g" -> "G" [] c = "h" -> "H"
      [] c = "i" -> "I" [] c = "j" -> "J" [] c = "k" -> "K" [] c = "l" -> "L"
      [] c = "m" -> "M" [] c = "n" -> "N" [] c = "o" -> "O" [] c = "p" -> "P"
      [] c = "q" -> "Q" [] c = "r" -> "R" [] c = "s" -> "S" [] c = "t" -> "T"
      [] c = "u" -> "U" [] c = "v" -> "V" [] c = "w" -> "W" [] c = "x" -> "X"
      [] c = "y" -> "Y" [] c = "z" -> "Z"
      [] OTHER -> c

\* str.upper()
Upper(s) == [i \in 1..Len(s) |-> UpperChar(s[i])]

Range(f) == {f[i] : i \in DOMAIN f}

\* the sequences over S of length at most n
SeqsUpTo(S, n) == UNION {[1..k -> S] : k \in 0..n}

(***************************************************************************)
(* Catalog (catalog.py)                                                    *)
(***************************************************************************)
ColumnInfo(name, data_type, size, is_nullable) ==
    [name |-> name, data_type |-> data_type, size |-> size,
     is_nullable |-> is_nullable]

TableInfo(name, columns) ==
    [name |-> name, columns |-> columns]

\* key in self._tables
HasKey(tbls, key) == \E i \in DOMAIN tbls : tbls[i].key = key

\* self._tables.get(key)
GetKey(tbls, key) ==
    IF HasKey(tbls, key)
    THEN Some(tbls[CHOOSE i \in DOMAIN tbls : tbls[i].key = key].info)
    ELSE None

\* self._tables[key] = info: a new key goes last, an old one keeps its place
SetKey(tbls, key, info) ==
    IF HasKey(tbls, key)
    THEN [i \in DOMAIN tbls |->
            IF tbls[i].key = key THEN [key |-> key, info |-> info] ELSE tbls[i]]
    ELSE Append(tbls, [key |-> key, info |-> info])

\* del self._tables[key]
DelKey(tbls, key) == SelectSeq(tbls, LAMBDA e : e.key # key)

\* get_column comparing with the name as given, not upper-cased
TableGetColumn_AsGiven(info, column_name) ==
    LET hits == {i \in DOMAIN info.columns :
                    Upper(info.columns[i].name) = column_name}
    IN  IF hits = {} THEN None
        ELSE Some(info.columns[CHOOSE i \in hits : \A j \in hits : i <= j])

\* TableInfo.get_column: the first column whose upper-cased name matches
TableGetColumn(info, column_name) ==
    LET hits == {i \in DOMAIN info.columns :
                    Upper(info.columns[i].name) = Upper(column_name)}
    IN  IF hits = {} THEN None
        ELSE Some(info.columns[CHOOSE i \in hits : \A j \in hits : i <= j])

table_exists(tbls, table_name) == HasKey(tbls, Upper(table_name))

get_table_info(tbls, table_name) == GetKey(tbls, Upper(table_name))

column_exists(tbls, table_name, column_name) ==
    LET table_info == get_table_info(tbls, table_name)
    IN  IF table_info = None THEN FALSE
        ELSE TableGetColumn(table_info[1], column_name) # None

get_column_info(tbls, table_name, column_name) ==
    LET table_info == get_table_info(tbls, table_name)
    IN  IF table_info # None THEN TableGetColumn(table_info[1], column_name)
        ELSE None

get_all_tables(tbls) == [i \in DOMAIN tbls |-> tbls[i].info.name]

get_column_type(tbls, table_name, column_name) ==
    LET col_info == get_column_info(tbls, table_name, column_name)
    IN  IF col_info # None THEN Some(col_info[1].data_type) ELSE None

TableMissingMessage(table_name) ==
    <<"Table '">> \o table_name \o <<"' does not exist">>

ColumnMissingMessage(col_name, table_name) ==
    <<"Column '">> \o col_name \o <<"' does not exist in table '">>
        \o table_name \o <<"'">>

\* validate_columns reporting the last missing name instead of the first
RECURSIVE ValidateFrom_Last(_, _, _, _)
ValidateFrom_Last(table_columns, column_names, table_name, i) ==
    IF i > Len(column_names) THEN <<TRUE, <<>>>>
    ELSE LET rest == ValidateFrom_Last(table_columns, column_names,
                                        table_name, i + 1)
         IN  IF rest[1] /\ \A k \in DOMAIN table_columns :
                    table_columns[k] # Upper(column_names[i])
             THEN <<FALSE, ColumnMissingMessage(column_names[i], table_name)>>
             ELSE rest

\* the for loop of validate_columns from index i on
RECURSIVE ValidateFrom(_, _, _, _)
ValidateFrom(table_columns, column_names, table_name, i) ==
    IF i > Len(column_names) THEN <<TRUE, <<>>>>
    ELSE IF \A k \in DOMAIN table_columns :
                table_columns[k] # Upper(column_names[i])
         THEN <<FALSE, ColumnMissingMessage(column_names[i], table_name)>>
         ELSE ValidateFrom(table_columns, column_names, table_name, i + 1)

validate_columns(tbls, table_name, column_names) ==
    LET table_info == get_table_info(tbls, table_name)
    IN  IF table_info = None
        THEN <<FALSE, TableMissingMessage(table_name)>>
        ELSE LET table_columns ==
                    [k \in DOMAIN table_info[1].columns |->
                        Upper(table_info[1].columns[k].name)]
             IN  ValidateFrom(table_columns, column_names, table_name, 1)

\* create_table testing the name as given against the keys
create_table_AsGiven(tbls, table_name, columns) ==
    LET table_key == Upper(table_name)
    IN  IF HasKey(tbls, table_name)
        THEN [tables |-> tbls, ret |-> FALSE]
        ELSE [tables |-> SetKey(tbls, table_key, TableInfo(table_name, columns)),
              ret |-> TRUE]

\* the new mapping and the return value of create_table
create_table(tbls, table_name, columns) ==
    LET table_key == Upper(table_name)
    IN  IF HasKey(tbls, table_key)
        THEN [tables |-> tbls, ret |-> FALSE]
        ELSE [tables |-> SetKey(tbls, table_key, TableInfo(table_name, columns)),
              ret |-> TRUE]

\* drop_table looking the name up as given
drop_table_AsGiven(tbls, table_name) ==
    IF ~HasKey(tbls, table_name)
    THEN [tables |-> tbls, ret |-> FALSE]
    ELSE [tables |-> DelKey(tbls, table_name), ret |-> TRUE]

\* the new mapping and the return value of drop_table
drop_table(tbls, table_name) ==
    LET table_key == Upper(table_name)
    IN  IF ~HasKey(tbls, table_key)
        THEN [tables |-> tbls, ret |-> FALSE]
        ELSE [tables |-> DelKey(tbls, table_key), ret |-> TRUE]

\* one column of to_dict's result
ColumnToDict(col) ==
    [name |-> col.name, data_type |-> col.data_type, size |-> col.size,
     is_nullable |-> col.is_nullable]

\* to_dict: the mapping from key to {name, columns}, in the mapping's order
to_dict(tbls) ==
    [i \in DOMAIN tbls |->
        [key |-> tbls[i].key,
         value |-> [name |-> tbls[i].info.name,
                    columns |-> [k \in DOMAIN tbls[i].info.columns |->
                                    ColumnToDict(tbls[i].info.columns[k])]]]]

\* dict.get(key, default)
DictGet(d, key, default) == IF key \in DOMAIN d THEN d[key] ELSE default

\* from_dict leaving is_nullable at the dataclass default
ColumnFromDict_Default(col_data) ==
    ColumnInfo(col_data["name"], col_data["data_type"],
               DictGet(col_data, "size", None), TRUE)

\* one ColumnInfo of from_dict
ColumnFromDict(col_data) ==
    ColumnInfo(col_data["name"], col_data["data_type"],
               DictGet(col_data, "size", None),
               DictGet(col_data, "is_nullable", TRUE))

\* the loop of from_dict over data's items from index i on
RECURSIVE FromDictFrom(_, _, _)
FromDictFrom(tbls, data, i) ==
    IF i > Len(data) THEN tbls
    ELSE LET table_data == data[i].value
             columns == [k \in DOMAIN table_data.columns |->
                            ColumnFromDict(table_data.columns[k])]
         IN  FromDictFrom(
                 SetKey(tbls, data[i].key, TableInfo(table_data.name, columns)),
                 data, i + 1)

\* from_dict: clear, then one table per item
from_dict(tbls, data) == FromDictFrom(<<>>, data, 1)

(***************************************************************************)
(* The catalog as a state machine: one action per public operation.       *)
(***************************************************************************)
MaxCols == 2

MaxNames == 2

TableNamePool == {<<"t">>, <<"T">>, <<"u">>}

ColumnPool ==
    {ColumnInfo(<<"c">>, "INT", None, TRUE),
     ColumnInfo(<<"C">>, "VARCHAR", Some(5), FALSE)}

ColumnLists == SeqsUpTo(ColumnPool, MaxCols)

ColumnNamePool == {<<"c">>, <<"C">>, <<"x">>}

NameLists == SeqsUpTo({<<"C">>, <<"x">>}, MaxNames)

\* records handed to from_dict: exported catalogs, a record written without
\* the optional keys, and a mapping whose key is not the upper-cased name
DictPool ==
    {to_dict(<<>>),
     to_dict(create_table(<<>>, <<"u">>, <<ColumnInfo(<<"C">>, "VARCHAR", Some(5), FALSE)>>).tables),
     <<[key |-> <<"U">>,
        value |-> [name |-> <<"u">>,
                   columns |-> <<[name |-> <<"c">>, data_type |-> "INT"]>>]]>>,
     <<[key |-> <<"t">>,
        value |-> [name |-> <<"u">>,
                   columns |-> <<[name |-> <<"c">>, data_type |-> "INT"]>>]]>>}

LexIdle ==
    /\ source = <<>>
    /\ position = 0
    /\ line = 1
    /\ column = 1
    /\ tokens = <<>>
    /\ lstate = "idle"
    /\ lerr = None

ParseIdle ==
    /\ ptokens = <<>>
    /\ ppos = 0
    /\ current_token = None
    /\ statements = <<>>
    /\ pstate = "idle"
    /\ perr = None

CatalogIdle ==
    /\ tables = <<>>
    /\ call = [op |-> "init", name |-> <<>>]
    /\ ret = None

Init ==
    /\ CatalogIdle
    /\ LexIdle
    /\ ParseIdle
    /\ plan = <<>>

Called(op, name, result) ==
    /\ call' = [op |-> op, name |-> name]
    /\ ret' = result
    /\ UNCHANGED <<lexVars, parVars, plan>>

CreateTable ==
    \E n \in TableNamePool, cols \in ColumnLists :
        LET r == create_table(tables, n, cols)
        IN  /\ tables' = r.tables
            /\ Called("create_table", n, r.ret)

DropTable ==
    \E n \in TableNamePool :
        LET r == drop_table(tables, n)
        IN  /\ tables' = r.tables
            /\ Called("drop_table", n, r.ret)

TableExists ==
    \E n \in TableNamePool :
        /\ tables' = tables
        /\ Called("table_exists", <<>>, table_exists(tables, n))

ColumnExists ==
    \E n \in TableNamePool, c \in ColumnNamePool :
        /\ tables' = tables
        /\ Called("column_exists", <<>>, column_exists(tables, n, c))

\* get_table_info written with dict.pop in place of dict.get
GetTableInfo_Pop ==
    \E n \in TableNamePool :
        /\ tables' = DelKey(tables, Upper(n))
        /\ Called("get_table_info", <<>>, get_table_info(tables, n))

GetTableInfo ==
    \E n \in TableNamePool :
        /\ tables' = tables
        /\ Called("get_table_info", <<>>, get_table_info(tables, n))

GetColumnInfo ==
    \E n \in TableNamePool, c \in ColumnNamePool :
        /\ tables' = tables
        /\ Called("get_column_info", <<>>, get_column_info(tables, n, c))

GetAllTables ==
    /\ tables' = tables
    /\ Called("get_all_tables", <<>>, get_all_tables(tables))

ValidateColumns ==
    \E n \in TableNamePool, names \in NameLists :
        /\ tables' = tables
        /\ Called("validate_columns", <<>>, validate_columns(tables, n, names))

GetColumnType ==
    \E n \in TableNamePool, c \in ColumnNamePool :
        /\ tables' = tables
        /\ Called("get_column_type", <<>>, get_column_type(tables, n, c))

Clear ==
    /\ tables' = <<>>
    /\ Called("clear", <<>>, None)

ToDict ==
    /\ tables' = tables
    /\ Called("to_dict", <<>>, to_dict(tables))

FromDict ==
    \E data \in DictPool :
        /\ tables' = from_dict(tables, data)
        /\ Called("from_dict", <<>>, None)

Next ==
    \/ CreateTable
    \/ DropTable
    \/ TableExists
    \/ ColumnExists
    \/ GetTableInfo
    \/ GetColumnInfo
    \/ GetAllTables
    \/ ValidateColumns
    \/ GetColumnType
    \/ Clear
    \/ ToDict
    \/ FromDict

Spec == Init /\ [][Next]_vars

(***************************************************************************)
(* Tokenizer (lexer.py)                                                    *)
(***************************************************************************)
Token(type, value, ln, col) ==
    [type |-> type, value |-> value, line |-> ln, column |-> col]

LexerError(message, ln, col) ==
    [message |-> message, line |-> ln, column |-> col]

KEYWORDS ==
    {<<"C", "R", "E", "A", "T", "E">>,
     <<"T", "A", "B", "L", "E">>,
     <<"I", "N", "S", "E", "R", "T">>,
     <<"I", "N", "T", "O">>,
     <<"S", "E", "L", "E", "C", "T">>,
     <<"F", "R", "O", "M">>,
     <<"W", "H", "E", "R", "E">>,
     <<"V", "A", "L", "U", "E", "S">>,
     <<"D", "E", "L", "E", "T", "E">>,
     <<"I", "N", "T">>,
     <<"I", "N", "T", "E", "G", "E", "R">>,
     <<"V", "A", "R", "C", "H", "A", "R">>,
     <<"C", "H", "A", "R">>,
     <<"A", "N", "D">>,
     <<"O", "R">>,
     <<"N", "O", "T">>}

\* OPERATORS.get(operator)
OperatorType(operator) ==
    CASE operator = <<"=">> -> Some("EQUALS")
      [] operator = <<"!", "=">> -> Some("NOT_EQUALS")
      [] operator = <<"<", ">">> -> Some("NOT_EQUALS")
      [] operator = <<"<">> -> Some("LESS_THAN")
      [] operator = <<">">> -> Some("GREATER_THAN")
      [] operator = <<"<", "=">> -> Some("LESS_EQUALS")
      [] operator = <<">", "=">> -> Some("GREATER_EQUALS")
      [] OTHER -> None

\* DELIMITERS.get(char)
DelimiterType(char) ==
    CASE char = "," -> Some("COMMA")
      [] char = ";" -> Some("SEMICOLON")
      [] char = "(" -> Some("LEFT_PAREN")
      [] char = ")" -> Some("RIGHT_PAREN")
      [] OTHER -> None

\* str.isspace, str.isdigit, str.isalpha, str.isalnum on one character
IsSpace(c) == c \in {" ", "\n", "\t", "\r"}

IsDigit(c) == c \in {"0", "1", "2", "3", "4", "5", "6", "7", "8", "9"}

IsAlpha(c) == c \in Range(LowerLetters) \cup Range(UpperLetters)

IsAlnum(c) == IsAlpha(c) \/ IsDigit(c)

\* the scan cursor: (position, line, column)
Cursor(pos, ln, col) == [position |-> pos, line |-> ln, column |-> col]

\* current_char: None at the end of the source
current_char(src, cur) ==
    IF cur.position >= Len(src) THEN None ELSE Some(src[cur.position + 1])

\* peek_char(offset)
peek_char(src, cur, offset) ==
    IF cur.position + offset >= Len(src) THEN None
    ELSE Some(src[cur.position + offset + 1])

\* advance without the line break case
advance_SameLine(src, cur) ==
    IF cur.position >= Len(src) THEN cur
    ELSE Cursor(cur.position + 1, cur.line, cur.column + 1)

\* advance: the cursor after the current character
advance(src, cur) ==
    With(cur, LAMBDA c :
        IF c.position >= Len(src) THEN c
        ELSE IF src[c.position + 1] = "\n"
             THEN Cursor(c.position + 1, c.line + 1, 1)
             ELSE Cursor(c.position + 1, c.line, c.column + 1))

RECURSIVE skip_whitespace(_, _)
skip_whitespace(src, cur) ==
    IF current_char(src, cur) # None /\ IsSpace(current_char(src, cur)[1])
    THEN skip_whitespace(src, advance(src, cur))
    ELSE cur

\* the text an escape pair stands for
Unescape(next_char, quote_char) ==
    CASE next_char = <<"n">> -> <<"\n">>
      [] next_char = <<"t">> -> <<"\t">>
      [] next_char = <<"r">> -> <<"\r">>
      [] next_char = <<"\\">> -> <<"\\">>
      [] next_char = quote_char -> quote_char
      [] OTHER -> next_char

\* the while loop of read_string: the cursor and the value when it ends
RECURSIVE ReadStringLoop(_, _, _, _)
ReadStringLoop(src, cur, quote_char, value) ==
    IF current_char(src, cur) = None \/ current_char(src, cur) = quote_char
    THEN [cur |-> cur, value |-> value]
    ELSE LET char == current_char(src, cur)
             cur1 == advance(src, cur)
         IN  IF char = <<"\\">>
             THEN ReadStringLoop(src, advance(src, cur1), quote_char,
                      value \o Unescape(current_char(src, cur1), quote_char))
             ELSE ReadStringLoop(src, cur1, quote_char, value \o char)

\* read_string with the error placed where the source ends
read_string_AtEnd(src, cur) ==
    LET quote_char == current_char(src, cur)
        r == ReadStringLoop(src, advance(src, cur), quote_char, <<>>)
    IN  IF current_char(src, r.cur) = None
        THEN [raised |-> TRUE, cur |-> r.cur,
              err |-> LexerError(<<"Unterminated string literal">>,
                                 r.cur.line, r.cur.column)]
        ELSE [raised |-> FALSE, cur |-> advance(src, r.cur), value |-> r.value]

\* read_string: the value and the cursor after the closing quote, or the error
read_string(src, cur) ==
    LET quote_char == current_char(src, cur)
        r == ReadStringLoop(src, advance(src, cur), quote_char, <<>>)
    IN  IF current_char(src, r.cur) = None
        THEN [raised |-> TRUE, cur |-> r.cur,
              err |-> LexerError(<<"Unterminated string literal">>,
                                 cur.line, cur.column)]
        ELSE [raised |-> FALSE, cur |-> advance(src, r.cur), value |-> r.value]

RECURSIVE read_number(_, _, _)
read_number(src, cur, value) ==
    IF current_char(src, cur) # None /\ IsDigit(current_char(src, cur)[1])
    THEN read_number(src, advance(src, cur), value \o current_char(src, cur))
    ELSE [cur |-> cur, value |-> value]

RECURSIVE read_identifier(_, _, _)
read_identifier(src, cur, value) ==
    IF /\ current_char(src, cur) # None
       /\ (IsAlnum(current_char(src, cur)[1]) \/ current_char(src, cur) = <<"_">>)
    THEN read_identifier(src, advance(src, cur), value \o current_char(src, cur))
    ELSE [cur |-> cur, value |-> value]

read_operator(src, cur) ==
    LET char == current_char(src, cur)
        next_char == peek_char(src, cur, 1)
    IN  IF char \in {<<"!">>, <<"<">>, <<">">>} /\ next_char = <<"=">>
        THEN [cur |-> advance(src, advance(src, cur)), value |-> char \o <<"=">>]
        ELSE IF char = <<"<">> /\ next_char = <<">">>
        THEN [cur |-> advance(src, advance(src, cur)), value |-> <<"<", ">">>]
        ELSE [cur |-> advance(src, cur), value |-> char]

\* a line comment branch that consumes nothing
SkipLineComment_Stay(src, cur) == cur

\* the while loop of the line comment branch
RECURSIVE SkipLineComment(_, _)
SkipLineComment(src, cur) ==
    IF current_char(src, cur) # None /\ current_char(src, cur) # <<"\n">>
    THEN SkipLineComment(src, advance(src, cur))
    ELSE cur

\* the while/else loop of the block comment branch: closed is FALSE when the
\* source ends first
RECURSIVE SkipBlockComment(_, _)
SkipBlockComment(src, cur) ==
    IF current_char(src, cur) = None THEN [closed |-> FALSE, cur |-> cur]
    ELSE IF current_char(src, cur) = <<"*">> /\ peek_char(src, cur, 1) = <<"/">>
         THEN [closed |-> TRUE, cur |-> advance(src, advance(src, cur))]
         ELSE SkipBlockComment(src, advance(src, cur))

Produced(cur, toks) == [raised |-> FALSE, cur |-> cur, toks |-> toks]

Raised(cur, toks, err) == [raised |-> TRUE, cur |-> cur, toks |-> toks, err |-> err]

\* the string branch with its own except clause, which appends an error token
\* and raises again
StringBranch(src, cur) ==
    LET r == read_string(src, cur)
    IN  IF r.raised
        THEN Raised(r.cur,
                    <<Token("ERROR", r.err.message, cur.line, cur.column)>>,
                    r.err)
        ELSE Produced(r.cur, <<Token("STRING", r.value, cur.line, cur.column)>>)

IdentifierBranch(src, cur) ==
    LET r == read_identifier(src, cur, <<>>)
        token_type == IF Upper(r.value) \in KEYWORDS THEN "KEYWORD"
                      ELSE "IDENTIFIER"
    IN  Produced(r.cur, <<Token(token_type, Upper(r.value), cur.line, cur.column)>>)

OperatorBranch(src, cur) ==
    LET r == read_operator(src, cur)
    IN  IF OperatorType(r.value) # None
        THEN Produced(r.cur, <<Token(OperatorType(r.value)[1], r.value,
                                     cur.line, cur.column)>>)
        ELSE Raised(r.cur, <<>>,
                    LexerError(<<"Unknown operator '">> \o r.value \o <<"'">>,
                               cur.line, cur.column))

BlockCommentBranch(src, cur) ==
    LET r == SkipBlockComment(src, advance(src, advance(src, cur)))
    IN  IF r.closed THEN Produced(r.cur, <<>>)
        ELSE Raised(r.cur, <<>>,
                    LexerError(<<"Unterminated comment">>, cur.line, cur.column))

\* the if/elif chain of tokenize's loop body at a cursor that is on a character
Dispatch(src, cur) ==
    LET char == src[cur.position + 1]
    IN  IF char \in {"\"", "'"} THEN StringBranch(src, cur)
        ELSE IF IsDigit(char)
        THEN LET r == read_number(src, cur, <<>>)
             IN  Produced(r.cur, <<Token("INTEGER", r.value, cur.line, cur.column)>>)
        ELSE IF IsAlpha(char) \/ char = "_" THEN IdentifierBranch(src, cur)
        ELSE IF char \in {"=", "!", "<", ">"} THEN OperatorBranch(src, cur)
        ELSE IF DelimiterType(char) # None
        THEN Produced(advance(src, cur),
                      <<Token(DelimiterType(char)[1], <<char>>, cur.line, cur.column)>>)
        ELSE IF char = "-" /\ peek_char(src, cur, 1) = <<"-">>
        THEN Produced(SkipLineComment(src, cur), <<>>)
        ELSE IF char = "/" /\ peek_char(src, cur, 1) = <<"*">>
        THEN BlockCommentBranch(src, cur)
        ELSE Raised(cur, <<>>,
                    LexerError(<<"Unexpected character '">> \o <<char>> \o <<"'">>,
                               cur.line, cur.column))

\* the outer except clause of tokenize: one more error token
OuterExcept(toks, e) == Append(toks, Token("ERROR", e.message, e.line, e.column))

\* an EOF token at the origin instead of the final cursor
EofToken_Origin(cur) == Token("EOF", <<>>, 1, 1)

\* the EOF token appended when the loop ends
EofToken(cur) == Token("EOF", <<>>, cur.line, cur.column)

(***************************************************************************)
(* tokenize as a state machine: one action per iteration of its loop      *)
(***************************************************************************)
LexCursor == Cursor(position, line, column)

SetCursor(cur) ==
    /\ position' = cur.position
    /\ line' = cur.line
    /\ column' = cur.column

\* SQLLexer(source) followed by the first line of tokenize
LexStart(src) ==
    /\ source = src
    /\ position = 0
    /\ line = 1
    /\ column = 1
    /\ tokens = <<>>
    /\ lstate = "scan"
    /\ lerr = None

\* an iteration that appends a token or skips a comment
LexStep ==
    /\ lstate = "scan"
    /\ position < Len(source)
    /\ \E cur \in {skip_whitespace(source, LexCursor)} :
           /\ current_char(source, cur) # None
           /\ \E r \in {Dispatch(source, cur)} :
                  /\ ~r.raised
                  /\ tokens' = tokens \o r.toks
                  /\ SetCursor(r.cur)
    /\ UNCHANGED <<source, lstate, lerr, catVars, parVars, plan>>

\* an iteration that finds only white space up to the end: break, EOF, return
LexBreak ==
    /\ lstate = "scan"
    /\ position < Len(source)
    /\ \E cur \in {skip_whitespace(source, LexCursor)} :
           /\ current_char(source, cur) = None
           /\ tokens' = Append(tokens, EofToken(cur))
           /\ SetCursor(cur)
    /\ lstate' = "returned"
    /\ UNCHANGED <<source, lerr, catVars, parVars, plan>>

\* the loop condition fails: EOF, return
LexEnd ==
    /\ lstate = "scan"
    /\ position >= Len(source)
    /\ tokens' = Append(tokens, EofToken(LexCursor))
    /\ lstate' = "returned"
    /\ UNCHANGED <<source, position, line, column, lerr, catVars, parVars, plan>>

\* an iteration that raises LexerError
LexRaise ==
    /\ lstate = "scan"
    /\ position < Len(source)
    /\ \E cur \in {skip_whitespace(source, LexCursor)} :
           /\ current_char(source, cur) # None
           /\ \E r \in {Dispatch(source, cur)} :
                  /\ r.raised
                  /\ tokens' = OuterExcept(tokens \o r.toks, r.err)
                  /\ lerr' = Some(r.err)
                  /\ SetCursor(r.cur)
    /\ lstate' = "raised"
    /\ UNCHANGED <<source, catVars, parVars, plan>>

MaxSrcLen == 3

LexAlphabet ==
    {"n", "1", "'", "\"", "\\", " ", "\n", "=", "!", "<", ">", ",", "-", "/",
     "*", "#"}

\* longer texts: comments, strings and words over several lines
LexSamples ==
    {<<"/", "*", "\n", "*", "/", " ", "n">>,
     <<"'", "a", "\n", "b", "'", " ", "1">>,
     <<"-", "-", " ", "c", "\n", " ", " ", "n">>,
     <<"S", "e", "l", "e", "c", "t", " ", "U", "P", "D", "A", "T", "E",
      " ", "s", "e", "t", " ", "n", "_", "1", " ", "_", "x", " ", "I",
      "n", "t">>,
     <<"'", "a", "\\", "'", "b", "'", " ", "<", "=", " ", "1", "2">>,
     <<"x", "<", ">", "y", ";", "(", "\"", "q", "\"", ")">>,
     <<"a", "\n", "/", "*", " ", "c">>,
     <<"n", "\n", " ", "'", "q">>}

InitLex ==
    /\ CatalogIdle
    /\ \E src \in SeqsUpTo(LexAlphabet, MaxSrcLen) \cup LexSamples : LexStart(src)
    /\ ParseIdle
    /\ plan = <<>>

NextLex ==
    \/ LexStep
    \/ LexBreak
    \/ LexEnd
    \/ LexRaise

SpecLex == InitLex /\ [][NextLex]_vars

\* SQLLexer(source) and the first line of tokenize, from the idle state
LexNew ==
    /\ lstate = "idle"
    /\ \E src \in SeqsUpTo(LexAlphabet, MaxSrcLen) \cup LexSamples :
           /\ source' = src
           /\ position' = 0
           /\ line' = 1
           /\ column' = 1
           /\ tokens' = <<>>
           /\ lstate' = "scan"
           /\ lerr' = None
    /\ UNCHANGED <<catVars, parVars, plan>>

NextLexFair ==
    \/ LexNew
    \/ LexStep
    \/ LexBreak
    \/ LexEnd
    \/ LexRaise

\* a call of tokenize runs to its end without being interrupted: an iteration
\* that can be taken is taken
SpecLexFair == Init /\ [][NextLexFair]_vars /\ WF_vars(NextLex)

(***************************************************************************)
(* AST nodes (ast_nodes.py)                                                *)
(***************************************************************************)
DataType(type_name, size, ln, col) ==
    [kind |-> "DataType", type_name |-> Upper(type_name), size |-> size,
     line |-> ln, column |-> col]

Identifier(name, ln, col) ==
    [kind |-> "Identifier", name |-> name, line |-> ln, column |-> col]

Literal(value, data_type, ln, col) ==
    [kind |-> "Literal", value |-> value, data_type |-> data_type,
     line |-> ln, column |-> col]

ColumnDef(name, data_type, ln, col) ==
    [kind |-> "ColumnDef", name |-> name, data_type |-> data_type,
     line |-> ln, column |-> col]

BinaryExpression(left, operator, right, ln, col) ==
    [kind |-> "BinaryExpression", left |-> left, operator |-> operator,
     right |-> right, line |-> ln, column |-> col]

CreateTableStatement(table_name, columns, ln, col) ==
    [kind |-> "CreateTableStatement", table_name |-> table_name,
     columns |-> columns, line |-> ln, column |-> col]

\* an insert node that drops its rows
InsertStatement_NoRows(table_name, columns, values, ln, col) ==
    [kind |-> "InsertStatement", table_name |-> table_name,
     columns |-> columns, values |-> <<>>, line |-> ln, column |-> col]

InsertStatement(table_name, columns, values, ln, col) ==
    [kind |-> "InsertStatement", table_name |-> table_name,
     columns |-> columns, values |-> values, line |-> ln, column |-> col]

SelectStatement(select_list, from_table, where_clause, ln, col) ==
    [kind |-> "SelectStatement", select_list |-> select_list,
     from_table |-> from_table, where_clause |-> where_clause,
     line |-> ln, column |-> col]

DeleteStatement(table_name, where_clause, ln, col) ==
    [kind |-> "DeleteStatement", table_name |-> table_name,
     where_clause |-> where_clause, line |-> ln, column |-> col]

\* parser.py imports UpdateStatement from ast_nodes.py, which does not define
\* it: the node is the one the specification describes
UpdateStatement(table_name, assignments, where_clause, ln, col) ==
    [kind |-> "UpdateStatement", table_name |-> table_name,
     assignments |-> assignments, where_clause |-> where_clause,
     line |-> ln, column |-> col]

SQLProgram(stmts, ln, col) ==
    [kind |-> "SQLProgram", statements |-> stmts, line |-> ln, column |-> col]

(***************************************************************************)
(* Parser (parser.py).  A parser state ps is (position, current_token); a  *)
(* production returns Ok(ps, node) or, when it raises, Err(ps, error).     *)
(***************************************************************************)
\* the words the parser compares token values with
W_CREATE == <<"C", "R", "E", "A", "T", "E">>

W_TABLE == <<"T", "A", "B", "L", "E">>

W_INSERT == <<"I", "N", "S", "E", "R", "T">>

W_INTO == <<"I", "N", "T", "O">>

W_SELECT == <<"S", "E", "L", "E", "C", "T">>

W_FROM == <<"F", "R", "O", "M">>

W_WHERE == <<"W", "H", "E", "R", "E">>

W_VALUES == <<"V", "A", "L", "U", "E", "S">>

W_DELETE == <<"D", "E", "L", "E", "T", "E">>

W_UPDATE == <<"U", "P", "D", "A", "T", "E">>

W_SET == <<"S", "E", "T">>

W_VARCHAR == <<"V", "A", "R", "C", "H", "A", "R">>

W_CHAR == <<"C", "H", "A", "R">>

ParseError(message, token, expected) ==
    [message |-> message, token |-> token, expected |-> expected]

ParserState(pos, cur) == [pos |-> pos, cur |-> cur]

Ok(ps, node) == [ok |-> TRUE, ps |-> ps, node |-> node]

Err(ps, e) == [ok |-> FALSE, ps |-> ps, err |-> e]

\* SQLParser.__init__
NewParser(toks) ==
    ParserState(0, IF toks # <<>> THEN Some(toks[1]) ELSE None)

\* advance that takes the last token of the list for the end
parser_advance_Short(toks, ps) ==
    IF ps.pos < Len(toks) - 2
    THEN ParserState(ps.pos + 1, Some(toks[ps.pos + 2]))
    ELSE ParserState(ps.pos, Some(Token("EOF", <<>>, 0, 0)))

\* SQLParser.advance: past the last token the current token is a made-up EOF
parser_advance(toks, ps) ==
    IF ps.pos < Len(toks) - 1
    THEN ParserState(ps.pos + 1, Some(toks[ps.pos + 2]))
    ELSE ParserState(ps.pos, Some(Token("EOF", <<>>, 0, 0)))

\* SQLParser.match
match(ps, token_types) == ps.cur # None /\ ps.cur[1].type \in token_types

\* the test "match(KEYWORD) and current_token.value.upper() == word"
AtKeyword(ps, word) == match(ps, {"KEYWORD"}) /\ Upper(ps.cur[1].value) = word

\* SQLParser.consume
consume(toks, ps, token_type, error_message) ==
    IF ~match(ps, {token_type})
    THEN Err(ps, ParseError(IF error_message # <<>> THEN error_message
                            ELSE <<"Expected ", token_type>>,
                            ps.cur, Some(token_type)))
    ELSE Ok(parser_advance(toks, ps), ps.cur[1])

\* the exception int() raises on text that is no numeral
ValueError(text) ==
    [exception |-> "ValueError",
     message |-> <<"invalid literal for int() with base 10: '">> \o text \o <<"'">>]

\* the exception is a ParseError
IsParseError(e) == "token" \in DOMAIN e

\* text on which int() returns a number: here a run of digits; text with
\* a letter makes it raise ValueError
IsNumeral(text) == text # <<>> /\ \A i \in DOMAIN text : IsDigit(text[i])

DigitValue(c) ==
    CASE c = "0" -> 0 [] c = "1" -> 1 [] c = "2" -> 2 [] c = "3" -> 3
      [] c = "4" -> 4 [] c = "5" -> 5 [] c = "6" -> 6 [] c = "7" -> 7
      [] c = "8" -> 8 [] c = "9" -> 9

\* int(text) for a run of digits
RECURSIVE ToInt(_)
ToInt(text) ==
    IF text = <<>> THEN 0
    ELSE 10 * ToInt(SubSeq(text, 1, Len(text) - 1)) + DigitValue(text[Len(text)])

parse_literal(toks, ps) ==
    IF match(ps, {"INTEGER"})
    THEN IF ~IsNumeral(ps.cur[1].value) THEN Err(ps, ValueError(ps.cur[1].value))
         ELSE Ok(parser_advance(toks, ps),
                 Literal(ToInt(ps.cur[1].value), "INT",
                         ps.cur[1].line, ps.cur[1].column))
    ELSE IF match(ps, {"STRING"})
    THEN Ok(parser_advance(toks, ps),
            Literal(ps.cur[1].value, "STRING", ps.cur[1].line, ps.cur[1].column))
    ELSE Err(ps, ParseError(<<"Expected literal value">>, ps.cur, None))

parse_primary(toks, ps) ==
    IF match(ps, {"IDENTIFIER"})
    THEN Ok(parser_advance(toks, ps),
            Identifier(ps.cur[1].value, ps.cur[1].line, ps.cur[1].column))
    ELSE IF match(ps, {"INTEGER", "STRING"})
    THEN parse_literal(toks, ps)
    ELSE Err(ps, ParseError(<<"Expected identifier or literal">>, ps.cur, None))

\* the comparison token types with keywords among them
ComparisonTypes_WithKeywords ==
    {"EQUALS", "NOT_EQUALS", "LESS_THAN", "GREATER_THAN", "LESS_EQUALS",
     "GREATER_EQUALS", "KEYWORD"}

ComparisonTypes ==
    {"EQUALS", "NOT_EQUALS", "LESS_THAN", "GREATER_THAN", "LESS_EQUALS",
     "GREATER_EQUALS"}

\* a call that may raise, and the statements after it: they run on what the
\* call returned, and an exception passes through them
Then(r, rest(_)) == With(r, LAMBDA v : IF v.ok THEN rest(v) ELSE v)

parse_comparison(toks, ps) ==
    Then(parse_primary(toks, ps), LAMBDA left :
    IF match(left.ps, ComparisonTypes)
    THEN Then(parse_primary(toks, parser_advance(toks, left.ps)), LAMBDA right :
         Ok(right.ps,
            BinaryExpression(left.node, left.ps.cur[1].value, right.node,
                             left.ps.cur[1].line, left.ps.cur[1].column)))
    ELSE left)

parse_expression(toks, ps) == parse_comparison(toks, ps)

\* the optional WHERE clause of SELECT, DELETE and UPDATE
WhereClause(toks, ps) ==
    IF AtKeyword(ps, W_WHERE)
    THEN Then(parse_expression(toks, parser_advance(toks, ps)), LAMBDA e :
         Ok(e.ps, Some(e.node)))
    ELSE Ok(ps, None)

parse_data_type(toks, ps) ==
    IF ~match(ps, {"KEYWORD"})
    THEN Err(ps, ParseError(<<"Expected data type">>, ps.cur,
                            Some("INT, INTEGER, VARCHAR, or CHAR")))
    ELSE LET type_name == Upper(ps.cur[1].value)
             ps1 == parser_advance(toks, ps)
         IN  IF type_name \in {W_VARCHAR, W_CHAR} /\ match(ps1, {"LEFT_PAREN"})
             THEN Then(consume(toks, parser_advance(toks, ps1), "INTEGER",
                               <<"Expected size after '('">>), LAMBDA size_token :
                  IF ~IsNumeral(size_token.node.value)
                  THEN Err(size_token.ps, ValueError(size_token.node.value))
                  ELSE
                  Then(consume(toks, size_token.ps, "RIGHT_PAREN",
                               <<"Expected ')' after size">>), LAMBDA close :
                  Ok(close.ps,
                     DataType(type_name, Some(ToInt(size_token.node.value)),
                              ps.cur[1].line, ps.cur[1].column))))
             ELSE Ok(ps1, DataType(type_name, None, ps.cur[1].line, ps.cur[1].column))

parse_column_definition(toks, ps) ==
    Then(consume(toks, ps, "IDENTIFIER", <<"Expected column name">>), LAMBDA name :
    Then(parse_data_type(toks, name.ps), LAMBDA data_type :
    Ok(data_type.ps,
       ColumnDef(name.node.value, data_type.node,
                 ps.cur[1].line, ps.cur[1].column))))

\* what follows an item of a parenthesised list: a comma is consumed, a
\* closing parenthesis is left, anything else raises
AfterListItem(toks, ps, message) ==
    IF match(ps, {"COMMA"}) THEN Ok(parser_advance(toks, ps), None)
    ELSE IF ~match(ps, {"RIGHT_PAREN"})
    THEN Err(ps, ParseError(message, ps.cur, Some(", or )")))
    ELSE Ok(ps, None)

\* one iteration of the column definition loop: a definition and what
\* follows it
ColumnDefItem(toks, ps) ==
    Then(parse_column_definition(toks, ps), LAMBDA col :
    Then(AfterListItem(toks, col.ps,
                       <<"Expected ',' or ')' in column list">>), LAMBDA sep :
    Ok(sep.ps, col.node)))

\* the column definition loop putting each definition first
RECURSIVE ColumnDefLoop_Reversed(_, _, _)
ColumnDefLoop_Reversed(toks, ps, columns) ==
    IF match(ps, {"RIGHT_PAREN"}) THEN Ok(ps, columns)
    ELSE Then(ColumnDefItem(toks, ps), LAMBDA item :
         ColumnDefLoop_Reversed(toks, item.ps, <<item.node>> \o columns))

\* the column definition loop of parse_create_table
RECURSIVE ColumnDefLoop(_, _, _)
ColumnDefLoop(toks, ps, columns) ==
    IF match(ps, {"RIGHT_PAREN"}) THEN Ok(ps, columns)
    ELSE Then(ColumnDefItem(toks, ps), LAMBDA item :
         ColumnDefLoop(toks, item.ps, Append(columns, item.node)))

parse_create_table(toks, ps) ==
    Then(consume(toks, ps, "KEYWORD", <<"Expected CREATE">>), LAMBDA create :
    IF ~AtKeyword(create.ps, W_TABLE)
    THEN Err(create.ps, ParseError(<<"Expected TABLE after CREATE">>,
                                   create.ps.cur, Some("TABLE")))
    ELSE
    Then(consume(toks, parser_advance(toks, create.ps), "IDENTIFIER",
                 <<"Expected table name">>), LAMBDA name :
    Then(consume(toks, name.ps, "LEFT_PAREN",
                 <<"Expected '(' after table name">>), LAMBDA open :
    Then(ColumnDefLoop(toks, open.ps, <<>>), LAMBDA cols :
    IF cols.node = <<>>
    THEN Err(cols.ps, ParseError(<<"Table must have at least one column">>,
                                 cols.ps.cur, None))
    ELSE
    Then(consume(toks, cols.ps, "RIGHT_PAREN",
                 <<"Expected ')' after column list">>), LAMBDA close :
    \* the loop has rebound the local "column" to the last column definition
    Ok(close.ps,
       CreateTableStatement(name.node.value, cols.node,
                            ps.cur[1].line, cols.node[Len(cols.node)])))))))

\* one iteration of the column name loop: a name and what follows it
InsertColumnItem(toks, ps) ==
    Then(consume(toks, ps, "IDENTIFIER", <<"Expected column name">>), LAMBDA col :
    Then(AfterListItem(toks, col.ps,
                       <<"Expected ',' or ')' in column list">>), LAMBDA sep :
    Ok(sep.ps, col.node.value)))

\* the column name loop of parse_insert
RECURSIVE InsertColumnLoop(_, _, _)
InsertColumnLoop(toks, ps, columns) ==
    IF match(ps, {"RIGHT_PAREN"}) THEN Ok(ps, columns)
    ELSE Then(InsertColumnItem(toks, ps), LAMBDA item :
         InsertColumnLoop(toks, item.ps, Append(columns, item.node)))

\* the optional column list of parse_insert
InsertColumns(toks, ps) ==
    IF match(ps, {"LEFT_PAREN"})
    THEN Then(InsertColumnLoop(toks, parser_advance(toks, ps), <<>>), LAMBDA cols :
         Then(consume(toks, cols.ps, "RIGHT_PAREN",
                      <<"Expected ')' after column list">>), LAMBDA close :
         Ok(close.ps, Some(cols.node))))
    ELSE Ok(ps, None)

\* one iteration of the value loop: a literal and what follows it
ValueItem(toks, ps) ==
    Then(parse_literal(toks, ps), LAMBDA value :
    Then(AfterListItem(toks, value.ps,
                       <<"Expected ',' or ')' in value list">>), LAMBDA sep :
    Ok(sep.ps, value.node)))

\* the value loop of parse_insert
RECURSIVE ValueLoop(_, _, _)
ValueLoop(toks, ps, current_row) ==
    IF match(ps, {"RIGHT_PAREN"}) THEN Ok(ps, current_row)
    ELSE Then(ValueItem(toks, ps), LAMBDA item :
         ValueLoop(toks, item.ps, Append(current_row, item.node)))

parse_insert(toks, ps) ==
    Then(consume(toks, ps, "KEYWORD", <<"Expected INSERT">>), LAMBDA insert :
    IF ~AtKeyword(insert.ps, W_INTO)
    THEN Err(insert.ps, ParseError(<<"Expected INTO after INSERT">>,
                                   insert.ps.cur, Some("INTO")))
    ELSE
    Then(consume(toks, parser_advance(toks, insert.ps), "IDENTIFIER",
                 <<"Expected table name">>), LAMBDA name :
    Then(InsertColumns(toks, name.ps), LAMBDA cols :
    IF ~AtKeyword(cols.ps, W_VALUES)
    THEN Err(cols.ps, ParseError(<<"Expected VALUES">>, cols.ps.cur,
                                 Some("VALUES")))
    ELSE
    Then(consume(toks, parser_advance(toks, cols.ps), "LEFT_PAREN",
                 <<"Expected '(' after VALUES">>), LAMBDA open :
    Then(ValueLoop(toks, open.ps, <<>>), LAMBDA row :
    Then(consume(toks, row.ps, "RIGHT_PAREN",
                 <<"Expected ')' after values">>), LAMBDA close :
    Ok(close.ps,
       InsertStatement(name.node.value, cols.node, <<row.node>>,
                       ps.cur[1].line, ps.cur[1].column))))))))

\* one iteration of the select list loop: a column name, and the comma
\* that makes the loop go on
SelectItem(toks, ps) ==
    IF ~match(ps, {"IDENTIFIER"})
    THEN Err(ps, ParseError(<<"Expected column name in SELECT list">>,
                            ps.cur, None))
    ELSE With(parser_advance(toks, ps), LAMBDA ps1 :
         IF match(ps1, {"COMMA"})
         THEN [ok |-> TRUE, ps |-> parser_advance(toks, ps1), more |-> TRUE,
               node |-> Identifier(ps.cur[1].value, ps.cur[1].line, ps.cur[1].column)]
         ELSE [ok |-> TRUE, ps |-> ps1, more |-> FALSE,
               node |-> Identifier(ps.cur[1].value, ps.cur[1].line, ps.cur[1].column)])

\* the select list loop of parse_select
RECURSIVE SelectListLoop(_, _, _)
SelectListLoop(toks, ps, select_list) ==
    Then(SelectItem(toks, ps), LAMBDA item :
    IF item.more
    THEN SelectListLoop(toks, item.ps, Append(select_list, item.node))
    ELSE Ok(item.ps, Append(select_list, item.node)))

parse_select(toks, ps) ==
    Then(consume(toks, ps, "KEYWORD", <<"Expected SELECT">>), LAMBDA select :
    Then(SelectListLoop(toks, select.ps, <<>>), LAMBDA list :
    IF ~AtKeyword(list.ps, W_FROM)
    THEN Err(list.ps, ParseError(<<"Expected FROM">>, list.ps.cur, Some("FROM")))
    ELSE
    Then(consume(toks, parser_advance(toks, list.ps), "IDENTIFIER",
                 <<"Expected table name after FROM">>), LAMBDA from_table :
    Then(WhereClause(toks, from_table.ps), LAMBDA where :
    Ok(where.ps,
       SelectStatement(list.node, from_table.node.value, where.node,
                       ps.cur[1].line, ps.cur[1].column))))))

parse_delete(toks, ps) ==
    Then(consume(toks, ps, "KEYWORD", <<"Expected DELETE">>), LAMBDA delete :
    IF ~AtKeyword(delete.ps, W_FROM)
    THEN Err(delete.ps, ParseError(<<"Expected FROM after DELETE">>,
                                   delete.ps.cur, Some("FROM")))
    ELSE
    Then(consume(toks, parser_advance(toks, delete.ps), "IDENTIFIER",
                 <<"Expected table name">>), LAMBDA name :
    Then(WhereClause(toks, name.ps), LAMBDA where :
    Ok(where.ps,
       DeleteStatement(name.node.value, where.node,
                       ps.cur[1].line, ps.cur[1].column)))))

\* one iteration of the assignment loop: column = value, and the comma that
\* makes the loop go on
AssignmentItem(toks, ps) ==
    Then(consume(toks, ps, "IDENTIFIER", <<"Expected column name">>), LAMBDA name :
    Then(consume(toks, name.ps, "EQUALS",
                 <<"Expected '=' after column name">>), LAMBDA eq :
    Then(parse_primary(toks, eq.ps), LAMBDA value :
    IF match(value.ps, {"COMMA"})
    THEN [ok |-> TRUE, ps |-> parser_advance(toks, value.ps), more |-> TRUE,
          node |-> <<name.node.value, value.node>>]
    ELSE [ok |-> TRUE, ps |-> value.ps, more |-> FALSE,
          node |-> <<name.node.value, value.node>>])))

\* the assignment loop of parse_update
RECURSIVE AssignmentLoop(_, _, _)
AssignmentLoop(toks, ps, assignments) ==
    Then(AssignmentItem(toks, ps), LAMBDA item :
    IF item.more
    THEN AssignmentLoop(toks, item.ps, Append(assignments, item.node))
    ELSE Ok(item.ps, Append(assignments, item.node)))

parse_update(toks, ps) ==
    Then(consume(toks, ps, "KEYWORD", <<"Expected UPDATE">>), LAMBDA update :
    Then(consume(toks, update.ps, "IDENTIFIER", <<"Expected table name">>),
         LAMBDA name :
    IF ~AtKeyword(name.ps, W_SET)
    THEN Err(name.ps, ParseError(<<"Expected SET after table name">>,
                                 name.ps.cur, Some("SET")))
    ELSE
    Then(AssignmentLoop(toks, parser_advance(toks, name.ps), <<>>), LAMBDA list :
    Then(WhereClause(toks, list.ps), LAMBDA where :
    Ok(where.ps,
       UpdateStatement(name.node.value, list.node, where.node,
                       ps.cur[1].line, ps.cur[1].column))))))

\* the statement a production returned, as an Optional[Statement]
Returned(r) == IF r.ok THEN Ok(r.ps, Some(r.node)) ELSE r

\* parse_statement: None when there is no current token
parse_statement(toks, ps) ==
    IF ps.cur = None THEN Ok(ps, None)
    ELSE IF match(ps, {"KEYWORD"})
    THEN LET keyword == Upper(ps.cur[1].value)
         IN  IF keyword = W_CREATE THEN Returned(parse_create_table(toks, ps))
             ELSE IF keyword = W_INSERT THEN Returned(parse_insert(toks, ps))
             ELSE IF keyword = W_SELECT THEN Returned(parse_select(toks, ps))
             ELSE IF keyword = W_DELETE THEN Returned(parse_delete(toks, ps))
             ELSE IF keyword = W_UPDATE THEN Returned(parse_update(toks, ps))
             ELSE Err(ps, ParseError(<<"Unsupported statement: ">> \o keyword,
                                     ps.cur, None))
    ELSE Err(ps, ParseError(<<"Expected statement">>, ps.cur,
                            Some("CREATE, INSERT, SELECT, DELETE, or UPDATE")))

\* one iteration of the loop of parse: the error token test, one statement
\* and the optional semicolon
ParseIteration(toks, ps) ==
    IF ps.cur[1].type = "ERROR"
    THEN Err(ps, ParseError(<<"Lexical error: ">> \o ps.cur[1].value, ps.cur, None))
    ELSE Then(parse_statement(toks, ps), LAMBDA stmt :
         IF match(stmt.ps, {"SEMICOLON"})
         THEN Ok(parser_advance(toks, stmt.ps), stmt.node)
         ELSE stmt)

(***************************************************************************)
(* parse as a state machine: one action per iteration of its loop         *)
(***************************************************************************)
ParserNow == ParserState(ppos, current_token)

SetParser(ps) ==
    /\ ppos' = ps.pos
    /\ current_token' = ps.cur

\* SQLParser(lexer.tokenize()) followed by the first line of parse
ParseStart ==
    /\ lstate = "returned"
    /\ pstate = "idle"
    /\ ptokens' = tokens
    /\ SetParser(NewParser(tokens))
    /\ statements' = <<>>
    /\ pstate' = "loop"
    /\ UNCHANGED <<perr, catVars, lexVars, plan>>

\* an iteration that parses one statement and the semicolon after it
ParseStatement ==
    /\ pstate = "loop"
    /\ ~match(ParserNow, {"EOF"})
    /\ LET r == ParseIteration(ptokens, ParserNow)
       IN  /\ r.ok
           /\ statements' = IF r.node # None THEN Append(statements, r.node[1])
                            ELSE statements
           /\ SetParser(r.ps)
    /\ UNCHANGED <<ptokens, pstate, perr, catVars, lexVars, plan>>

\* an iteration that raises ParseError
ParseRaise ==
    /\ pstate = "loop"
    /\ ~match(ParserNow, {"EOF"})
    /\ LET r == ParseIteration(ptokens, ParserNow)
       IN  /\ ~r.ok
           /\ perr' = Some(r.err)
           /\ SetParser(r.ps)
    /\ pstate' = "raised"
    /\ UNCHANGED <<ptokens, statements, catVars, lexVars, plan>>

\* the loop ends at EOF: parse returns SQLProgram(statements, 1, 1)
ParseReturn ==
    /\ pstate = "loop"
    /\ match(ParserNow, {"EOF"})
    /\ pstate' = "returned"
    /\ UNCHANGED <<ptokens, ppos, current_token, statements, perr, catVars,
                   lexVars, plan>>

\* the program parse has returned
Program == SQLProgram(statements, 1, 1)

(***************************************************************************)
(* The pipeline SQLParser(SQLLexer(s).tokenize()).parse() on source texts  *)
(* written from a plan: statements of the grammar, each with or without a  *)
(* semicolon, and texts that are not statements.                           *)
(***************************************************************************)
MaxStmts == 2

GrammarStatements ==
   {[kind |-> "CreateTableStatement",
     text |-> <<"C", "R", "E", "A", "T", "E", " ", "T", "A", "B", "L", "E",
          " ", "t", "(", "a", " ", "I", "N", "T", ")">>,
     table |-> <<"t">>, columns |-> <<>>, where |-> FALSE],
    [kind |-> "CreateTableStatement",
     text |-> <<"C", "R", "E", "A", "T", "E", " ", "T", "A", "B", "L", "E",
          " ", "t", "(", "a", " ", "I", "N", "T", "(", "5", ")", ")">>,
     table |-> <<"t">>, columns |-> <<>>, where |-> FALSE],
    [kind |-> "CreateTableStatement",
     text |-> <<"c", "r", "e", "a", "t", "e", " ", "t", "a", "b", "l", "e",
          " ", "T", "a", "b", " ", "(", "a", " ", "I", "N", "T", "E",
          "G", "E", "R", ",", " ", "b", " ", "V", "A", "R", "C", "H",
          "A", "R", "(", "5", ")", ",", " ", "c", " ", "c", "h", "a",
          "r", "(", "1", ")", ")">>,
     table |-> <<"T", "a", "b">>, columns |-> <<>>, where |-> FALSE],
    [kind |-> "InsertStatement",
     text |-> <<"I", "N", "S", "E", "R", "T", " ", "I", "N", "T", "O", " ",
          "t", " ", "V", "A", "L", "U", "E", "S", " ", "(", "1", ")">>,
     table |-> <<"t">>, columns |-> <<>>, where |-> FALSE],
    [kind |-> "InsertStatement",
     text |-> <<"i", "n", "s", "e", "r", "t", " ", "i", "n", "t", "o", " ",
          "t", "(", "a", ",", " ", "b", ")", " ", "v", "a", "l", "u",
          "e", "s", " ", "(", "1", ",", " ", "'", "x", "'", ")">>,
     table |-> <<"t">>, columns |-> <<<<"a">>, <<"b">>>>, where |-> FALSE],
    [kind |-> "SelectStatement",
     text |-> <<"S", "E", "L", "E", "C", "T", " ", "a", " ", "F", "R", "O",
          "M", " ", "t">>,
     table |-> <<"t">>, columns |-> <<<<"a">>>>, where |-> FALSE],
    [kind |-> "SelectStatement",
     text |-> <<"s", "e", "l", "e", "c", "t", " ", "a", ",", " ", "b", " ",
          "f", "r", "o", "m", " ", "t", " ", "w", "h", "e", "r", "e",
          " ", "a", " ", ">", "=", " ", "1">>,
     table |-> <<"t">>, columns |-> <<<<"a">>, <<"b">>>>, where |-> TRUE],
    [kind |-> "DeleteStatement",
     text |-> <<"D", "E", "L", "E", "T", "E", " ", "F", "R", "O", "M", " ",
          "t">>,
     table |-> <<"t">>, columns |-> <<>>, where |-> FALSE],
    [kind |-> "DeleteStatement",
     text |-> <<"D", "E", "L", "E", "T", "E", " ", "F", "R", "O", "M", " ",
          "t", " ", "W", "H", "E", "R", "E", " ", "a", " ", "=", " ",
          "'", "x", "'">>,
     table |-> <<"t">>, columns |-> <<>>, where |-> TRUE],
    [kind |-> "UpdateStatement",
     text |-> <<"U", "P", "D", "A", "T", "E", " ", "t", " ", "S", "E", "T",
          " ", "a", " ", "=", " ", "1">>,
     table |-> <<"t">>, columns |-> <<<<"a">>>>, where |-> FALSE],
    [kind |-> "UpdateStatement",
     text |-> <<"U", "P", "D", "A", "T", "E", " ", "t", " ", "S", "E", "T",
          " ", "a", " ", "=", " ", "1", ",", " ", "b", " ", "=", " ",
          "c", " ", "W", "H", "E", "R", "E", " ", "a", " ", "<", ">",
          " ", "2">>,
     table |-> <<"t">>, columns |-> <<<<"a">>, <<"b">>>>, where |-> TRUE],
    [kind |-> "UpdateStatement",
     text |-> <<"u", "p", "d", "a", "t", "e", " ", "t", " ", "s", "e", "t",
          " ", "b", " ", "=", " ", "'", "x", "'", " ", "w", "h", "e",
          "r", "e", " ", "a">>,
     table |-> <<"t">>, columns |-> <<<<"b">>>>, where |-> TRUE]}

BrokenStatements ==
   {[kind |-> "Broken",
     text |-> <<"S", "E", "L", "E", "C", "T", " ", "a", " ", "F", "R", "O",
          "M", " ", "'", "x">>,
     table |-> <<>>, columns |-> <<>>, where |-> FALSE],
    [kind |-> "Broken",
     text |-> <<"S", "E", "L", "E", "C", "T", " ", "F", "R", "O", "M", " ",
          "t">>,
     table |-> <<>>, columns |-> <<>>, where |-> FALSE]}

PlanItems ==
    {[stmt |-> st, semi |-> b] : st \in GrammarStatements, b \in BOOLEAN}
        \cup {[stmt |-> st, semi |-> FALSE] : st \in BrokenStatements}

\* the source text of a plan: each statement, its semicolon, a line break
RECURSIVE PlanText(_)
PlanText(items) ==
    IF items = <<>> THEN <<>>
    ELSE Head(items).stmt.text
            \o (IF Head(items).semi THEN <<";">> ELSE <<>>)
            \o <<"\n">> \o PlanText(Tail(items))

InitPipe ==
    /\ CatalogIdle
    /\ plan \in SeqsUpTo(PlanItems, MaxStmts)
    /\ LexStart(PlanText(plan))
    /\ ParseIdle

NextPipe ==
    \/ LexStep
    \/ LexBreak
    \/ LexEnd
    \/ LexRaise
    \/ ParseStart
    \/ ParseStatement
    \/ ParseRaise
    \/ ParseReturn

SpecPipe == InitPipe /\ [][NextPipe]_vars

(***************************************************************************)
(* The pipeline on statements that break a rule of the grammar, and on     *)
(* every text cut short: each source is the first n characters of a text.  *)
(***************************************************************************)
CaseTexts ==
    {<<"C", "R", "E", "A", "T", "E", " ", "T", "A", "B", "L", "E", " ",
      "t", "(", ")">>,
     <<"C", "R", "E", "A", "T", "E", " ", "T", "A", "B", "L", "E", " ",
      "t", "(", "a", " ", "I", "N", "T", ",", " ", "b", " ", "C", "H",
      "A", "R", "(", "2", ")", ")">>,
     <<"C", "R", "E", "A", "T", "E", " ", "T", "A", "B", "L", "E", " ",
      "t", "(", "a", " ", "S", "E", "L", "E", "C", "T", ")">>,
     <<"C", "R", "E", "A", "T", "E", " ", "T", "A", "B", "L", "E", " ",
      "t", "(", "a", " ", "A", "N", "D", ",", " ", "b", " ", "T", "A",
      "B", "L", "E", ")">>,
     <<"C", "R", "E", "A", "T", "E", " ", "T", "A", "B", "L", "E", " ",
      "t", "(", "a", " ", "b", ")">>,
     <<"C", "R", "E", "A", "T", "E", " ", "T", "A", "B", "L", "E", " ",
      "t", "(", "a", " ", "1", ")">>,
     <<"C", "R", "E", "A", "T", "E", " ", "T", "A", "B", "L", "E", " ",
      "t", "(", "a", " ", "I", "N", "T", "(", "5", ")", ")">>,
     <<"C", "R", "E", "A", "T", "E", " ", "T", "A", "B", "L", "E", " ",
      "t", "(", "a", " ", "I", "N", "T", ",", ")">>,
     <<"C", "R", "E", "A", "T", "E", " ", "T", "A", "B", "L", "E", " ",
      "t", "(", "a", " ", "I", "N", "T", ",", ",", " ", "b", " ", "I",
      "N", "T", ")">>,
     <<"I", "N", "S", "E", "R", "T", " ", "I", "N", "T", "O", " ", "t",
      " ", "V", "A", "L", "U", "E", "S", " ", "(", "1", ")", ",", " ",
      "(", "2", ")">>,
     <<"I", "N", "S", "E", "R", "T", " ", "I", "N", "T", "O", " ", "t",
      "(", "a", ",", " ", "b", ")", " ", "V", "A", "L", "U", "E", "S",
      " ", "(", "1", ",", " ", "'", "x", "'", ")", ";">>,
     <<"I", "N", "S", "E", "R", "T", " ", "I", "N", "T", "O", " ", "t",
      "(", "a", ",", ")", " ", "V", "A", "L", "U", "E", "S", " ", "(",
      "1", ",", ")">>,
     <<"I", "N", "S", "E", "R", "T", " ", "I", "N", "T", "O", " ", "t",
      "(", ")", " ", "V", "A", "L", "U", "E", "S", " ", "(", "1", ")">>,
     <<"I", "N", "S", "E", "R", "T", " ", "I", "N", "T", "O", " ", "t",
      " ", "V", "A", "L", "U", "E", "S", " ", "(", ")">>,
     <<"S", "E", "L", "E", "C", "T", " ", "a", " ", "F", "R", "O", "M",
      " ", "t", " ", "W", "H", "E", "R", "E", " ", "a", " ", "=", " ",
      "1", " ", "A", "N", "D", " ", "b", " ", "=", " ", "2">>,
     <<"S", "E", "L", "E", "C", "T", " ", "a", " ", "F", "R", "O", "M",
      " ", "t", " ", "W", "H", "E", "R", "E", " ", "a", " ", "=", " ",
      "1", " ", "=", " ", "2">>,
     <<"S", "E", "L", "E", "C", "T", " ", "a", " ", "F", "R", "O", "M",
      " ", "t", " ", "W", "H", "E", "R", "E", " ", "1">>,
     <<"S", "E", "L", "E", "C", "T", " ", "i", "d", " ", "F", "R", "O",
      "M", " ", "s", "t", "u", "d", "e", "n", "t", " ", "W", "H", "E",
      "R", "E">>,
     <<"D", "E", "L", "E", "T", "E", " ", "F", "R", "O", "M", " ", "t",
      " ", "W", "H", "E", "R", "E", " ", "N", "O", "T", " ", "a">>,
     <<"D", "E", "L", "E", "T", "E", " ", "F", "R", "O", "M", " ", "t",
      " ", "W", "H", "E", "R", "E", " ", "a", " ", "<", " ", "b", " ",
      "O", "R", " ", "c">>,
     <<"D", "E", "L", "E", "T", "E", " ", "F", "R", "O", "M", " ", "t",
      " ", "W", "H", "E", "R", "E", " ", "a", " ", "A", "N", "D", " ",
      "b">>,
     <<"U", "P", "D", "A", "T", "E", " ", "t", " ", "S", "E", "T", " ",
      "a", " ", "=", " ", "1", " ", "W", "H", "E", "R", "E", " ", "a",
      " ", "=", " ", "1">>,
     <<"S", "E", "L", "E", "C", "T", " ", "a", " ", "F", "R", "O", "M",
      " ", "t", ";", " ", "D", "E", "L", "E", "T", "E", " ", "F", "R",
      "O", "M", " ", "t", " ", "W", "H", "E", "R", "E", " ", "a", " ",
      "<", ">", " ", "'", "x", "'">>}

InitCases ==
    /\ CatalogIdle
    /\ \E text \in CaseTexts :
          \E n \in 0..Len(text) : LexStart(SubSeq(text, 1, n))
    /\ ParseIdle
    /\ plan = <<>>

SpecCases == InitCases /\ [][NextPipe]_vars

(***************************************************************************)
(* parse on token lists handed to SQLParser directly: statements of the    *)
(* grammar as tokens, every list cut short (so without the EOF token),     *)
(* INTEGER tokens whose text is no numeral, and all short lists.           *)
(***************************************************************************)
MaxToks == 2

\* a token list from <<type, value>> pairs, on line 1 at columns 1, 2, ...
TokenList(items) ==
    [i \in 1..Len(items) |-> Token(items[i][1], items[i][2], 1, i)]

TokenSamples ==
    {TokenList(<<
        <<"KEYWORD", W_CREATE>>, <<"KEYWORD", W_TABLE>>, <<"IDENTIFIER", <<"T">>>>,
        <<"LEFT_PAREN", <<"(">>>>, <<"IDENTIFIER", <<"A">>>>,
        <<"KEYWORD", <<"I", "N", "T">>>>, <<"COMMA", <<",">>>>,
        <<"IDENTIFIER", <<"B">>>>, <<"KEYWORD", W_CHAR>>, <<"LEFT_PAREN", <<"(">>>>,
        <<"INTEGER", <<"2">>>>, <<"RIGHT_PAREN", <<")">>>>,
        <<"RIGHT_PAREN", <<")">>>>, <<"EOF", <<>>>> >>),
     TokenList(<<
        <<"KEYWORD", W_INSERT>>, <<"KEYWORD", W_INTO>>, <<"IDENTIFIER", <<"T">>>>,
        <<"LEFT_PAREN", <<"(">>>>, <<"IDENTIFIER", <<"A">>>>, <<"COMMA", <<",">>>>,
        <<"IDENTIFIER", <<"B">>>>, <<"RIGHT_PAREN", <<")">>>>,
        <<"KEYWORD", W_VALUES>>, <<"LEFT_PAREN", <<"(">>>>, <<"INTEGER", <<"1">>>>,
        <<"COMMA", <<",">>>>, <<"STRING", <<"x">>>>, <<"RIGHT_PAREN", <<")">>>>,
        <<"SEMICOLON", <<";">>>>, <<"EOF", <<>>>> >>),
     TokenList(<<
        <<"KEYWORD", W_SELECT>>, <<"IDENTIFIER", <<"A">>>>, <<"COMMA", <<",">>>>,
        <<"IDENTIFIER", <<"B">>>>, <<"KEYWORD", W_FROM>>, <<"IDENTIFIER", <<"T">>>>,
        <<"KEYWORD", W_WHERE>>, <<"IDENTIFIER", <<"A">>>>, <<"EQUALS", <<"=">>>>,
        <<"INTEGER", <<"1">>>>, <<"SEMICOLON", <<";">>>>, <<"KEYWORD", W_DELETE>>,
        <<"KEYWORD", W_FROM>>, <<"IDENTIFIER", <<"T">>>>, <<"EOF", <<>>>> >>),
     TokenList(<<
        <<"KEYWORD", W_UPDATE>>, <<"IDENTIFIER", <<"T">>>>, <<"KEYWORD", W_SET>>,
        <<"IDENTIFIER", <<"A">>>>, <<"EQUALS", <<"=">>>>, <<"INTEGER", <<"1">>>>,
        <<"COMMA", <<",">>>>, <<"IDENTIFIER", <<"B">>>>, <<"EQUALS", <<"=">>>>,
        <<"IDENTIFIER", <<"C">>>>, <<"KEYWORD", W_WHERE>>, <<"IDENTIFIER", <<"A">>>>,
        <<"LESS_THAN", <<"<">>>>, <<"INTEGER", <<"1">>>>, <<"EOF", <<>>>> >>),
     TokenList(<<
        <<"KEYWORD", W_SELECT>>, <<"IDENTIFIER", <<"A">>>>, <<"KEYWORD", W_FROM>>,
        <<"IDENTIFIER", <<"T">>>>, <<"KEYWORD", W_WHERE>>, <<"INTEGER", <<"x">>>>,
        <<"EOF", <<>>>> >>),
     TokenList(<<
        <<"KEYWORD", W_CREATE>>, <<"KEYWORD", W_TABLE>>, <<"IDENTIFIER", <<"T">>>>,
        <<"LEFT_PAREN", <<"(">>>>, <<"IDENTIFIER", <<"A">>>>, <<"KEYWORD", W_CHAR>>,
        <<"LEFT_PAREN", <<"(">>>>, <<"INTEGER", <<"x">>>>, <<"RIGHT_PAREN", <<")">>>>,
        <<"RIGHT_PAREN", <<")">>>>, <<"EOF", <<>>>> >>)}

TokenPool ==
    {Token("KEYWORD", W_SELECT, 1, 1), Token("KEYWORD", W_WHERE, 1, 1),
     Token("IDENTIFIER", <<"A">>, 1, 1), Token("INTEGER", <<"1">>, 1, 1),
     Token("COMMA", <<",">>, 1, 1), Token("SEMICOLON", <<";">>, 1, 1),
     Token("ERROR", <<"e">>, 1, 1), Token("EOF", <<>>, 1, 1)}

\* the non-empty token lists given to SQLParser
TokenLists ==
    UNION {{SubSeq(toks, 1, n) : n \in 1..Len(toks)} : toks \in TokenSamples}
        \cup SeqsUpTo(TokenPool, MaxToks)

\* SQLParser(tokens) followed by the first line of parse
ParseNew ==
    /\ lstate = "idle"
    /\ pstate = "idle"
    /\ \E toks \in TokenLists \ {<<>>} :
           /\ ptokens' = toks
           /\ SetParser(NewParser(toks))
    /\ statements' = <<>>
    /\ pstate' = "loop"
    /\ UNCHANGED <<perr, catVars, lexVars, plan>>

\* the iterations of the loop of parse and its end
NextParse ==
    \/ ParseStatement
    \/ ParseRaise
    \/ ParseReturn

NextParseFair ==
    \/ ParseNew
    \/ ParseStatement
    \/ ParseRaise
    \/ ParseReturn

\* a call of parse runs to its end without being interrupted
SpecParseFair == Init /\ [][NextParseFair]_vars /\ WF_vars(NextParse)

(***************************************************************************)
(* Properties of the catalog                                               *)
(***************************************************************************)
KeyPresent(tbls, key) == key \in {tbls[i].key : i \in DOMAIN tbls}

CaseVariants(n) == {m \in TableNamePool : Upper(m) = Upper(n)}

\* C3: create_table on a name whose upper-cased key is present returns False
\* and leaves the whole mapping (names, column order, column metadata, the
\* other tables) as it was.
C3_CreateExistingIsNoOp ==
    [][(call'.op = "create_table" /\ KeyPresent(tables, Upper(call'.name)))
        => (ret' = FALSE /\ tables' = tables)]_vars

\* a create_table was refused for a name that differs in case from the stored one
C3_Witness ==
    /\ call.op = "create_table"
    /\ ret = FALSE
    /\ \E i \in DOMAIN tables :
          /\ tables[i].key = Upper(call.name)
          /\ tables[i].info.name # call.name
    /\ Len(tables) = 2

\* C4: drop_table of an absent key returns False and changes nothing; of a
\* present key returns True, removes that table for every case variant of the
\* name and leaves every other table as it was.
C4_DropTable ==
    [][call'.op = "drop_table" =>
        LET key == Upper(call'.name)
        IN  IF ~KeyPresent(tables, key)
            THEN ret' = FALSE /\ tables' = tables
            ELSE /\ ret' = TRUE
                 /\ \A m \in CaseVariants(call'.name) : ~table_exists(tables', m)
                 /\ \A i \in DOMAIN tables :
                        tables[i].key # key => tables[i] \in Range(tables')
                 /\ \A j \in DOMAIN tables' : tables'[j] \in Range(tables)
                 /\ Len(tables') = Len(tables) - 1]_vars

\* a table was dropped under a lower-case name and another table is still there
C4_Witness ==
    /\ call.op = "drop_table"
    /\ ret = TRUE
    /\ Len(tables) = 1
    /\ Upper(call.name) # call.name

\* C5: every lookup gives the same result for all case variants of the table
\* name and of the column name, and a created table's stored name, also as
\* get_all_tables returns it, is the name given at creation.
C5_CaseInsensitiveLookups ==
    /\ \A n1 \in TableNamePool : \A n2 \in CaseVariants(n1) :
          /\ table_exists(tables, n1) = table_exists(tables, n2)
          /\ get_table_info(tables, n1) = get_table_info(tables, n2)
          /\ \A c1, c2 \in ColumnNamePool :
                Upper(c1) = Upper(c2) =>
                  /\ column_exists(tables, n1, c1) = column_exists(tables, n2, c2)
                  /\ get_column_info(tables, n1, c1) = get_column_info(tables, n2, c2)
                  /\ get_column_type(tables, n1, c1) = get_column_type(tables, n2, c2)
    /\ (call.op = "create_table" /\ ret = TRUE) =>
          /\ \A m \in CaseVariants(call.name) :
                /\ table_exists(tables, m)
                /\ get_table_info(tables, m) # None
                /\ get_table_info(tables, m)[1].name = call.name
          /\ call.name \in Range(get_all_tables(tables))
          /\ \A m \in CaseVariants(call.name) :
                m # call.name => m \notin Range(get_all_tables(tables))

\* a table was created under a lower-case name with a lower-case column
C5_Witness ==
    /\ call.op = "create_table"
    /\ ret = TRUE
    /\ call.name = <<"t">>
    /\ column_exists(tables, <<"T">>, <<"C">>)
    /\ get_column_info(tables, <<"T">>, <<"C">>)[1].name = <<"c">>

Mentions(msg, name) ==
    \E i \in 1..Len(msg) :
        i + Len(name) - 1 <= Len(msg) /\ SubSeq(msg, i, i + Len(name) - 1) = name

\* the indexes of the names that match no column of the table, ignoring case
MissingIn(info, names) ==
    {i \in DOMAIN names :
        \A k \in DOMAIN info.columns :
            Upper(info.columns[k].name) # Upper(names[i])}

\* C6: validate_columns fails naming the table when it does not exist; for an
\* existing table it succeeds exactly when every name matches a column
\* ignoring case, and otherwise fails naming the first missing name of the
\* list and no other missing name.
C6_ValidateColumns ==
    \A t \in TableNamePool : \A names \in NameLists :
        LET r == validate_columns(tables, t, names)
        IN  IF ~KeyPresent(tables, Upper(t))
            THEN r[1] = FALSE /\ r[2] = TableMissingMessage(t)
            ELSE LET info == GetKey(tables, Upper(t))[1]
                     missing == MissingIn(info, names)
                 IN  IF missing = {}
                     THEN r = <<TRUE, <<>>>>
                     ELSE LET first == CHOOSE i \in missing :
                                          \A j \in missing : i <= j
                          IN  /\ r[1] = FALSE
                              /\ r[2] = ColumnMissingMessage(names[first], t)
                              /\ \A j \in missing :
                                    names[j] # names[first]
                                        => ~Mentions(r[2], names[j])

\* validate_columns has returned the failure for a list with two different
\* missing names
C6_Witness ==
    /\ call.op = "validate_columns"
    /\ \E t \in TableNamePool : \E names \in NameLists :
          /\ KeyPresent(tables, Upper(t))
          /\ Len(names) = 2
          /\ names[1] # names[2]
          /\ MissingIn(GetKey(tables, Upper(t))[1], names) = {1, 2}
          /\ ret = validate_columns(tables, t, names)
          /\ ret = <<FALSE, ColumnMissingMessage(names[1], t)>>

\* catalogs that receive an import
ImportTargets ==
    {<<>>,
     create_table(<<>>, <<"t">>, <<>>).tables,
     create_table(<<>>, <<"v">>, <<ColumnInfo(<<"c">>, "INT", None, TRUE)>>).tables}

\* C7: importing the export of any reachable catalog into any catalog leaves
\* exactly the exported tables: keys, stored names, column order and each
\* column's name, type, size and nullability; the target's tables are gone.
C7_ExportImportRoundTrip ==
    \A target \in ImportTargets :
        LET got == from_dict(target, to_dict(tables))
        IN  /\ Len(got) = Len(tables)
            /\ \A i \in DOMAIN tables :
                  /\ got[i].key = tables[i].key
                  /\ got[i].info.name = tables[i].info.name
                  /\ Len(got[i].info.columns) = Len(tables[i].info.columns)
                  /\ \A k \in DOMAIN tables[i].info.columns :
                        LET a == got[i].info.columns[k]
                            b == tables[i].info.columns[k]
                        IN  /\ a.name = b.name
                            /\ a.data_type = b.data_type
                            /\ a.size = b.size
                            /\ a.is_nullable = b.is_nullable

\* an import has produced a table with a sized, non-nullable column
C7_Witness ==
    /\ call.op = "from_dict"
    /\ Len(tables) = 1
    /\ tables[1].info.columns # <<>>
    /\ tables[1].info.columns[1].is_nullable = FALSE
    /\ tables[1].info.columns[1].size = Some(5)

ReadOps ==
    {"table_exists", "column_exists", "get_table_info", "get_column_info",
     "get_all_tables", "validate_columns", "get_column_type", "to_dict"}

\* C8 as stated: the mapping changes only in create_table, drop_table or clear
C8_OnlyCreateDropClearMutate ==
    [][tables' # tables => call'.op \in {"create_table", "drop_table", "clear"}]_vars

\* C8 amended: the mapping changes only in create_table, drop_table, clear or
\* from_dict; the lookups, validate_columns and to_dict leave it unchanged.
C8_OnlyMutatorsMutate ==
    [][/\ tables' # tables =>
            call'.op \in {"create_table", "drop_table", "clear", "from_dict"}
       /\ call'.op \in ReadOps => tables' = tables]_vars

\* a lookup has run on a catalog holding two tables
C8_Witness ==
    /\ call.op \in ReadOps
    /\ Len(tables) = 2

\* C22: in every reachable catalog state each key equals the upper-cased
\* stored name of its TableInfo, so no two stored tables have names equal
\* ignoring case and every stored table is found by table_exists under its
\* own name.
C22_KeysAreUpperNames ==
    /\ \A i \in DOMAIN tables : tables[i].key = Upper(tables[i].info.name)
    /\ \A i, j \in DOMAIN tables :
           Upper(tables[i].info.name) = Upper(tables[j].info.name) => i = j
    /\ \A i \in DOMAIN tables : table_exists(tables, tables[i].info.name)

(***************************************************************************)
(* Properties of the lexer                                                 *)
(***************************************************************************)
TokensOfType(type) == {i \in 1..Len(tokens) : tokens[i].type = type}

\* the line and column after the last character of a text, counted from its
\* line breaks
LineBreaks(src) == {i \in 1..Len(src) : src[i] = "\n"}

EndLine(src) == 1 + Cardinality(LineBreaks(src))

EndColumn(src) ==
    LET last == IF LineBreaks(src) = {} THEN 0
                ELSE CHOOSE i \in LineBreaks(src) :
                         \A j \in LineBreaks(src) : j <= i
    IN  Len(src) - last + 1

\* C9: when tokenize returns normally the token list holds exactly one EOF
\* token, it is the last element, its line and column are the scanner's
\* position after the whole source has been consumed, and the list holds no
\* ERROR token.
C9_ReturnEndsWithOneEof ==
    lstate = "returned" =>
        /\ tokens # <<>>
        /\ TokensOfType("EOF") = {Len(tokens)}
        /\ TokensOfType("ERROR") = {}
        /\ position = Len(source)
        /\ line = EndLine(source)
        /\ column = EndColumn(source)
        /\ tokens[Len(tokens)].line = line
        /\ tokens[Len(tokens)].column = column

C9_Witness ==
    /\ lstate = "returned"
    /\ Len(tokens) >= 2
    /\ line >= 2
    /\ column >= 2

\* C10: when tokenize raises, the token list is the tokens produced before
\* the error followed by exactly one ERROR token, which is the last element
\* and carries the raised error's message, line and column, and the list
\* holds no EOF token.
C10_RaiseEndsWithOneErrorToken ==
    lstate = "raised" =>
        /\ lerr # None
        /\ tokens # <<>>
        /\ TokensOfType("ERROR") = {Len(tokens)}
        /\ TokensOfType("EOF") = {}
        /\ tokens[Len(tokens)].value = lerr[1].message
        /\ tokens[Len(tokens)].line = lerr[1].line
        /\ tokens[Len(tokens)].column = lerr[1].column

\* the offset of the first character at or after an offset that is not white
\* space: the end of the text when there is none
FirstNonSpace(src, from) ==
    LET stops == {p \in from..Len(src) :
                     p = Len(src) \/ src[p + 1] \notin {" ", "\n", "\t", "\r"}}
    IN  CHOOSE p \in stops : \A q \in stops : p <= q

\* the tokens a step has appended
Appended == {i \in 1..Len(tokens') : i > Len(tokens)}

\* C11: every token tokenize appends, the EOF token included, has the line
\* 1 + (line breaks before its first character) and the column 1 + (characters
\* between the last line break before it and its first character).
C11_TokenPositions ==
    [][\A i \in Appended :
          LET start == FirstNonSpace(source, position)
              before == SubSeq(source, 1, start)
          IN  /\ tokens'[i].line = EndLine(before)
              /\ tokens'[i].column = EndColumn(before)]_vars

C11_Witness ==
    /\ lstate = "returned"
    /\ \E i \in 1..Len(source) : source[i] = "\n" /\ i < Len(source) - 2
    /\ source[1] \in {"/", "'"}
    /\ \E i \in 1..Len(tokens) :
          /\ tokens[i].type \in {"IDENTIFIER", "INTEGER"}
          /\ tokens[i].line = 2
          /\ tokens[i].column >= 4

\* the offset in a text of a (line, column) position
OffsetAt(src, ln, col) ==
    CHOOSE p \in 0..Len(src) :
        /\ EndLine(SubSeq(src, 1, p)) = ln
        /\ EndColumn(SubSeq(src, 1, p)) = col

\* the content of the quoted literal whose opening quote is at index i - 1
RECURSIVE QuotedContent(_, _, _)
QuotedContent(src, i, quote) ==
    IF i > Len(src) \/ src[i] = quote THEN <<>>
    ELSE IF src[i] = "\\" /\ i < Len(src)
    THEN (CASE src[i + 1] = "n" -> <<"\n">>
            [] src[i + 1] = "t" -> <<"\t">>
            [] src[i + 1] = "r" -> <<"\r">>
            [] OTHER -> <<src[i + 1]>>) \o QuotedContent(src, i + 2, quote)
    ELSE <<src[i]>> \o QuotedContent(src, i + 1, quote)

LexemeTypes ==
    {"KEYWORD", "IDENTIFIER", "INTEGER", "COMMA", "SEMICOLON", "LEFT_PAREN",
     "RIGHT_PAREN"} \cup ComparisonTypes

\* C12: the source text at a token's (line, column), as long as the lexeme, is
\* the lexeme of a keyword, identifier, integer, operator or delimiter token;
\* at a string token's (line, column) the source holds the quoted literal
\* whose unescaped content is the lexeme.
C12_LexemeIsSourceText ==
    \A i \in 1..Len(tokens) :
        LET token == tokens[i]
            p == OffsetAt(source, token.line, token.column)
        IN  /\ token.type \in LexemeTypes =>
                SubSeq(source, p + 1, p + Len(token.value)) = token.value
            /\ token.type = "STRING" =>
                /\ source[p + 1] \in {"'", "\""}
                /\ QuotedContent(source, p + 2, source[p + 1]) = token.value

\* the keyword set the specification gives
ListedKeywords ==
    {W_CREATE, W_TABLE, W_INSERT, W_INTO, W_SELECT, W_FROM, W_WHERE, W_VALUES,
     W_DELETE, W_UPDATE, W_SET, <<"I", "N", "T">>,
     <<"I", "N", "T", "E", "G", "E", "R">>, W_VARCHAR, W_CHAR,
     <<"A", "N", "D">>, <<"O", "R">>, <<"N", "O", "T">>}

IsWordChar(c) == IsAlpha(c) \/ IsDigit(c) \/ c = "_"

\* the maximal run of letters, digits and underscores from an offset
WordAt(src, start) ==
    LET ends == {q \in start..Len(src) :
                    /\ \A k \in (start + 1)..q : IsWordChar(src[k])
                    /\ q = Len(src) \/ ~IsWordChar(src[q + 1])}
    IN  SubSeq(src, start + 1, CHOOSE q \in ends : TRUE)

\* a step of tokenize whose first character is a letter or an underscore
AtWord ==
    /\ lstate = "scan"
    /\ FirstNonSpace(source, position) < Len(source)
    /\ LET c == source[FirstNonSpace(source, position) + 1]
       IN  IsAlpha(c) \/ c = "_"

\* C13: a maximal run of letters, digits and underscores that starts with a
\* letter or an underscore becomes one token with the upper-cased run as its
\* lexeme, a keyword exactly when the upper-cased run is one of the listed
\* keywords and an identifier otherwise.
C13_WordsAndKeywords ==
    [][AtWord =>
          LET word == WordAt(source, FirstNonSpace(source, position))
          IN  /\ Len(tokens') = Len(tokens) + 1
              /\ tokens'[Len(tokens')].value = Upper(word)
              /\ tokens'[Len(tokens')].type =
                     IF Upper(word) \in ListedKeywords THEN "KEYWORD"
                     ELSE "IDENTIFIER"
              /\ position' = FirstNonSpace(source, position) + Len(word)]_vars

\* a quoted literal whose content starts at index i has its closing quote
RECURSIVE QuoteCloses(_, _, _)
QuoteCloses(src, i, quote) ==
    IF i > Len(src) THEN FALSE
    ELSE IF src[i] = quote THEN TRUE
    ELSE IF src[i] = "\\" THEN QuoteCloses(src, i + 2, quote)
    ELSE QuoteCloses(src, i + 1, quote)

\* the step of tokenize starts at a quote that is never closed
AtOpenString ==
    LET start == FirstNonSpace(source, position)
    IN  /\ lstate = "scan"
        /\ start < Len(source)
        /\ source[start + 1] \in {"'", "\""}
        /\ ~QuoteCloses(source, start + 2, source[start + 1])

\* the step of tokenize starts at a block comment that is never closed
AtOpenComment ==
    LET start == FirstNonSpace(source, position)
    IN  /\ lstate = "scan"
        /\ start + 1 < Len(source)
        /\ source[start + 1] = "/"
        /\ source[start + 2] = "*"
        /\ ~\E k \in (start + 3)..(Len(source) - 1) :
               source[k] = "*" /\ source[k + 1] = "/"

\* the error a step raises has the message and the position of the step's
\* first character
RaisesAtStart(message) ==
    LET before == SubSeq(source, 1, FirstNonSpace(source, position))
    IN  /\ lstate' = "raised"
        /\ lerr' = Some(LexerError(message, EndLine(before), EndColumn(before)))

\* C21: when the source ends before a string's closing quote or a block
\* comment's closing */, tokenize raises a LexerError with the line and column
\* of the opening quote, or of the / that starts the comment.
C21_UnterminatedAnchoredAtStart ==
    [][/\ AtOpenString => RaisesAtStart(<<"Unterminated string literal">>)
       /\ AtOpenComment => RaisesAtStart(<<"Unterminated comment">>)]_vars

C21_Witness ==
    /\ lstate = "raised"
    /\ lerr[1].message = <<"Unterminated string literal">>
    /\ lerr[1].line = 2
    /\ lerr[1].column = 2
    /\ column > lerr[1].column + 1

\* tokenize has returned or raised
LexDone == lstate \in {"returned", "raised"}

\* an iteration of the main loop that does not raise
LexIteration ==
    /\ lstate = "scan"
    /\ position < Len(source)
    /\ lstate' # "raised"

\* C23: tokenize eventually returns or raises; every iteration of its main
\* loop that does not raise strictly increases the scan position, and the
\* position never decreases and never exceeds the source length.
C23_TokenizeTerminates ==
    /\ (lstate = "scan") ~> LexDone
    /\ [][/\ LexIteration => position' > position
          /\ position' >= position]_vars
    /\ [](position \in 0..Len(source))

\* a run of several iterations (comment, white space, word) that has returned
C23_Witness ==
    /\ lstate = "returned"
    /\ Len(tokens) = 2
    /\ Len(source) = 7
    /\ position = Len(source)
    /\ source[1] = "/"

(***************************************************************************)
(* Properties of the pipeline                                              *)
(***************************************************************************)
Finished == lstate = "raised" \/ pstate \in {"returned", "raised"}

\* C1: a source text of k statements of the grammar, each with or without a
\* semicolon, is tokenized and parsed without an exception, and the program
\* holds exactly k statements, in source order.
C1_ParsesEveryStatement ==
    (Finished /\ \A i \in 1..Len(plan) : plan[i].stmt \in GrammarStatements) =>
        /\ lstate = "returned"
        /\ pstate = "returned"
        /\ Len(Program.statements) = Len(plan)
        /\ \A i \in 1..Len(plan) :
               Program.statements[i].kind = plan[i].stmt.kind

\* the columns of an UPDATE statement's assignments, in order
AssignedColumns(stmt) == [i \in 1..Len(stmt.assignments) |-> stmt.assignments[i][1]]

UpperAll(names) == [i \in 1..Len(names) |-> Upper(names[i])]

\* C2: a text that starts with an UPDATE statement is dispatched to the
\* update production and yields an UpdateStatement with the table name, the
\* assignments in source order and the optional where clause.
C2_UpdateYieldsUpdateStatement ==
    (/\ Finished
     /\ plan # <<>>
     /\ plan[1].stmt \in GrammarStatements
     /\ plan[1].stmt.kind = "UpdateStatement") =>
        /\ statements # <<>>
        /\ statements[1].kind = "UpdateStatement"
        /\ Upper(statements[1].table_name) = Upper(plan[1].stmt.table)
        /\ UpperAll(AssignedColumns(statements[1])) = UpperAll(plan[1].stmt.columns)
        /\ (statements[1].where_clause # None) = plan[1].stmt.where

\* the table a statement names
TableOf(stmt) ==
    IF stmt.kind = "SelectStatement" THEN stmt.from_table ELSE stmt.table_name

\* the column names a statement lists: the INSERT column list, the SELECT
\* list, the assigned columns of UPDATE
ColumnsOf(stmt) ==
    CASE stmt.kind = "InsertStatement" ->
             IF stmt.columns = None THEN <<>> ELSE stmt.columns[1]
      [] stmt.kind = "SelectStatement" ->
             [i \in 1..Len(stmt.select_list) |-> stmt.select_list[i].name]
      [] stmt.kind = "UpdateStatement" -> AssignedColumns(stmt)
      [] OTHER -> <<>>

\* C14: the table name and the column names of every statement of the AST
\* have the casing they have in the source text.
C14_NamesKeepSourceCase ==
    (/\ pstate = "returned"
     /\ \A i \in 1..Len(plan) : plan[i].stmt \in GrammarStatements) =>
        \A i \in 1..Len(statements) :
            /\ TableOf(statements[i]) = plan[i].stmt.table
            /\ plan[i].stmt.columns # <<>> =>
                   ColumnsOf(statements[i]) = plan[i].stmt.columns

(***************************************************************************)
(* Properties of the parser                                                *)
(***************************************************************************)
\* the token list holds the given token types at i, i + 1, ...
TypesAt(i, types) ==
    /\ i + Len(types) - 1 <= Len(ptokens)
    /\ \A k \in 1..Len(types) : ptokens[i + k - 1].type = types[k]

\* a node comes before another in the source text
Before(a, b) == a.line < b.line \/ (a.line = b.line /\ a.column < b.column)

\* the source starts with CREATE TABLE name ( )
EmptyColumnList ==
    /\ TypesAt(1, <<"KEYWORD", "KEYWORD", "IDENTIFIER", "LEFT_PAREN", "RIGHT_PAREN">>)
    /\ ptokens[1].value = W_CREATE
    /\ ptokens[2].value = W_TABLE

\* C15: every CreateTableStatement parse has produced has at least one column
\* definition, in source order; CREATE TABLE with an empty column list raises
\* ParseError and produces no statement.
C15_CreateTableHasColumns ==
    /\ \A i \in 1..Len(statements) :
           statements[i].kind = "CreateTableStatement" =>
               /\ Len(statements[i].columns) >= 1
               /\ \A j, k \in 1..Len(statements[i].columns) :
                      j < k => Before(statements[i].columns[j],
                                      statements[i].columns[k])
    /\ (Finished /\ EmptyColumnList) =>
           pstate = "raised" /\ statements = <<>>

C15_Witness ==
    /\ pstate = "returned"
    /\ \E i \in 1..Len(statements) :
           /\ statements[i].kind = "CreateTableStatement"
           /\ Len(statements[i].columns) = 2

\* CREATE TABLE with an empty column list has raised
C15_RaisedOnEmptyList ==
    /\ pstate = "raised"
    /\ EmptyColumnList
    /\ perr[1].message = <<"Table must have at least one column">>

\* an INSERT whose VALUES tuple is followed by a comma and a second tuple
SecondTuple ==
    /\ TypesAt(1, <<"KEYWORD", "KEYWORD", "IDENTIFIER">>)
    /\ ptokens[1].value = W_INSERT
    /\ ptokens[2].value = W_INTO
    /\ \E i \in 1..Len(ptokens) :
           /\ TypesAt(i, <<"KEYWORD", "LEFT_PAREN">>)
           /\ ptokens[i].value = W_VALUES
           /\ \E j \in (i + 2)..Len(ptokens) :
                  /\ TypesAt(j, <<"RIGHT_PAREN", "COMMA", "LEFT_PAREN">>)
                  /\ \A k \in (i + 2)..(j - 1) :
                         ptokens[k].type \in {"INTEGER", "STRING", "COMMA"}

\* C16: every InsertStatement parse has produced has exactly one row of
\* values; an INSERT whose VALUES tuple is followed by a comma and a second
\* tuple makes parse raise ParseError.
C16_InsertHasOneRow ==
    /\ \A i \in 1..Len(statements) :
           statements[i].kind = "InsertStatement" =>
               Len(statements[i].values) = 1
    /\ (Finished /\ SecondTuple) => pstate = "raised"

C16_Witness ==
    /\ pstate = "raised"
    /\ SecondTuple
    /\ Len(statements) = 1
    /\ statements[1].kind = "InsertStatement"
    /\ Len(statements[1].values) = 1
    /\ perr[1].token[1].type = "COMMA"

TypeNames ==
    {<<"I", "N", "T">>, <<"I", "N", "T", "E", "G", "E", "R">>, W_VARCHAR, W_CHAR}

\* the DataType nodes of the statements parse has produced
DataTypeNodes ==
    UNION {{statements[i].columns[j].data_type :
               j \in 1..Len(statements[i].columns)} :
           i \in {k \in 1..Len(statements) :
                     statements[k].kind = "CreateTableStatement"}}

\* the first column definition of a CREATE TABLE has, where its type goes, a
\* token that is not one of the four type keywords
WrongTypeToken ==
    /\ TypesAt(1, <<"KEYWORD", "KEYWORD", "IDENTIFIER", "LEFT_PAREN", "IDENTIFIER">>)
    /\ ptokens[1].value = W_CREATE
    /\ ptokens[2].value = W_TABLE
    /\ Len(ptokens) >= 6
    /\ ~(ptokens[6].type = "KEYWORD" /\ ptokens[6].value \in TypeNames)

\* C17: every DataType node has one of the names INT, INTEGER, VARCHAR, CHAR
\* and a size only when the name is VARCHAR or CHAR; a column definition with
\* any other token where its type goes raises ParseError.
C17_DataTypeNames ==
    /\ \A data_type \in DataTypeNodes :
           /\ data_type.type_name \in TypeNames
           /\ data_type.size # None => data_type.type_name \in {W_VARCHAR, W_CHAR}
    /\ (Finished /\ WrongTypeToken) => pstate = "raised"

ComparisonOperators ==
    {<<"=">>, <<"!", "=">>, <<"<", ">">>, <<"<">>, <<">">>, <<"<", "=">>,
     <<">", "=">>}

IsOperand(e) == e.kind \in {"Identifier", "Literal"}

\* an optional where clause that is one operand or one comparison of operands
PlainWhere(where) ==
    \/ where = None
    \/ IsOperand(where[1])
    \/ /\ where[1].kind = "BinaryExpression"
       /\ where[1].operator \in ComparisonOperators
       /\ IsOperand(where[1].left)
       /\ IsOperand(where[1].right)

\* WHERE, a complete comparison, then a comparison operator or AND, OR, NOT
ChainedWhere ==
    \E i \in 1..Len(ptokens) :
        /\ i + 4 <= Len(ptokens)
        /\ ptokens[i].type = "KEYWORD" /\ ptokens[i].value = W_WHERE
        /\ ptokens[i + 1].type \in {"IDENTIFIER", "INTEGER", "STRING"}
        /\ ptokens[i + 2].type \in {"EQUALS", "NOT_EQUALS", "LESS_THAN",
                                    "GREATER_THAN", "LESS_EQUALS", "GREATER_EQUALS"}
        /\ ptokens[i + 3].type \in {"IDENTIFIER", "INTEGER", "STRING"}
        /\ \/ ptokens[i + 4].type \in {"EQUALS", "NOT_EQUALS", "LESS_THAN",
                                       "GREATER_THAN", "LESS_EQUALS", "GREATER_EQUALS"}
           \/ /\ ptokens[i + 4].type = "KEYWORD"
              /\ ptokens[i + 4].value \in {<<"A", "N", "D">>, <<"O", "R">>,
                                           <<"N", "O", "T">>}

\* C18: the where clause of every SELECT, DELETE or UPDATE statement parse has
\* produced is one Identifier or Literal, or one BinaryExpression of a
\* comparison operator and two operands that are each an Identifier or a
\* Literal; a where clause whose comparison is followed by another comparison
\* operator or by AND, OR or NOT makes parse raise ParseError.
C18_WhereIsOneComparison ==
    /\ \A i \in 1..Len(statements) :
           statements[i].kind \in {"SelectStatement", "DeleteStatement",
                                   "UpdateStatement"} =>
               PlainWhere(statements[i].where_clause)
    /\ (Finished /\ ChainedWhere) => pstate = "raised"

C18_Witness ==
    /\ pstate = "raised"
    /\ ChainedWhere
    /\ Len(statements) = 1
    /\ statements[1].kind = "SelectStatement"
    /\ statements[1].where_clause # None
    /\ statements[1].where_clause[1].kind = "BinaryExpression"
    /\ perr[1].message = <<"Unsupported statement: ">> \o <<"A", "N", "D">>

\* the source is SELECT name FROM name WHERE and nothing more
TruncatedAfterWhere ==
    /\ Len(ptokens) = 6
    /\ TypesAt(1, <<"KEYWORD", "IDENTIFIER", "KEYWORD", "IDENTIFIER", "KEYWORD", "EOF">>)
    /\ ptokens[1].value = W_SELECT
    /\ ptokens[3].value = W_FROM
    /\ ptokens[5].value = W_WHERE

\* C19: a ParseError raised on the tokens of a successful tokenize carries the
\* token of that list at the parser's cursor, whose line and column are at
\* least 1; for SELECT ... WHERE cut after WHERE it is tokenize's EOF token
\* and the message says an identifier or literal was expected.
C19_ErrorTokenIsAtCursor ==
    pstate = "raised" =>
        /\ perr # None
        /\ ppos + 1 \in 1..Len(ptokens)
        /\ perr[1].token = Some(ptokens[ppos + 1])
        /\ perr[1].token[1].line >= 1
        /\ perr[1].token[1].column >= 1
        /\ TruncatedAfterWhere =>
               /\ ppos + 1 = Len(ptokens)
               /\ perr[1].token[1].type = "EOF"
               /\ perr[1].message = <<"Expected identifier or literal">>

C19_Witness ==
    /\ pstate = "raised"
    /\ TruncatedAfterWhere
    /\ perr[1].token[1] = Token("EOF", <<>>, 1, Len(source) + 1)

\* a CREATE TABLE or INSERT whose parenthesised list ends with a comma or
\* is an INSERT list with no item
BrokenList ==
    /\ Len(ptokens) >= 1
    /\ ptokens[1].type = "KEYWORD"
    /\ \/ /\ ptokens[1].value \in {W_CREATE, W_INSERT}
          /\ \E i \in 1..Len(ptokens) : TypesAt(i, <<"COMMA", "RIGHT_PAREN">>)
       \/ /\ ptokens[1].value = W_INSERT
          /\ \E i \in 1..Len(ptokens) : TypesAt(i, <<"LEFT_PAREN", "RIGHT_PAREN">>)

\* C20: a column-definition list, INSERT column list or INSERT value list
\* with a comma directly before the closing parenthesis, and an empty INSERT
\* column list or value list, each make parse raise ParseError.
C20_ListsNeedItems ==
    (Finished /\ BrokenList) => pstate = "raised"


\* parse has returned a program or raised ParseError
ParseDone ==
    \/ pstate = "returned"
    \/ pstate = "raised" /\ IsParseError(perr[1])

\* the parser at the token with index i
AtIndex(i) == ParserState(i, Some(ptokens[i + 1]))

\* from ps to ps2 a token was consumed: the index has grown, or the last
\* token of the list was left for the made-up EOF token
Consumed(toks, ps, ps2) ==
    \/ ps2.pos > ps.pos
    \/ /\ ps.pos = Len(toks) - 1
       /\ ps2.pos = ps.pos
       /\ ps2.cur = Some(Token("EOF", <<>>, 0, 0))
       /\ ps2.cur # ps.cur

\* an iteration of a list loop started at index i that does not raise
ConsumesAt(r, i) == r.ok => Consumed(ptokens, AtIndex(i), r.ps)

\* every iteration of each list loop, wherever it starts in the token list,
\* consumes a token unless it raises
ListLoopsConsume ==
    \A i \in 0..(Len(ptokens) - 1) :
        /\ ConsumesAt(ColumnDefItem(ptokens, AtIndex(i)), i)
        /\ ConsumesAt(InsertColumnItem(ptokens, AtIndex(i)), i)
        /\ ConsumesAt(ValueItem(ptokens, AtIndex(i)), i)
        /\ ConsumesAt(SelectItem(ptokens, AtIndex(i)), i)
        /\ ConsumesAt(AssignmentItem(ptokens, AtIndex(i)), i)

\* the cursor index is within the list, and advance from any index neither
\* goes back nor leaves the list
CursorInRange ==
    pstate # "idle" =>
        /\ ppos \in 0..(Len(ptokens) - 1)
        /\ \A i \in 0..(Len(ptokens) - 1) :
               parser_advance(ptokens, AtIndex(i)).pos \in {i, i + 1}
                   \cap 0..(Len(ptokens) - 1)

\* an iteration of the statement loop that does not raise moves the cursor
\* index forward, and no step of parse moves it back
StatementLoopProgress ==
    /\ pstate = "loop" /\ pstate' = "loop" => ppos' > ppos
    /\ pstate # "idle" => ppos' >= ppos

\* C24: for every non-empty token list parse eventually returns a program or
\* raises ParseError; every iteration of the statement loop and of each list
\* loop that does not raise consumes at least one token, and the cursor index
\* never decreases and stays within 0 .. len(tokens)-1.
C24_ParseTerminates ==
    /\ [](pstate = "raised" => IsParseError(perr[1]))
    /\ (pstate = "loop") ~> ParseDone
    /\ [][StatementLoopProgress]_vars
    /\ [](CursorInRange /\ ListLoopsConsume)

\* parse ends, with a program or with any exception
C24_ParseEnds == (pstate = "loop") ~> (pstate \in {"returned", "raised"})

\* the parts of C24 about the loops and the cursor
C24_CursorMoves == [][StatementLoopProgress]_vars /\ [](CursorInRange /\ ListLoopsConsume)

\* parse has raised an exception that is no ParseError
C24_RaisedValueError ==
    /\ pstate = "raised"
    /\ ~IsParseError(perr[1])
    /\ perr[1].exception = "ValueError"

====
